---- MODULE Spec2Model ----
(***************************************************************************)
(* Model of the LLM reliability platform's analytical core:                *)
(*   - AbstractInvariant.should_apply (domain/models/invariant.py)         *)
(*   - InvariantRegistry             (domain/models/invariant.py)          *)
(*   - ValidationService             (application/services/validation)     *)
(*   - DriftDetectionService         (application/services/analysis)       *)
(*   - the value objects of domain/models and PIILeakageInvariant          *)
(*   - FinancialWarningsInvariant    (domain/invariants/compliance)        *)
(*   - CaptureBuffer                 (sdk/python/llm_reliability_sdk)      *)
(*   - TokenBucketRateLimiter        (infrastructure/cache)                *)
(* Several specifications share the module: SpecApply (should_apply as a   *)
(* function of configuration and request), SpecRegistry (the registry's    *)
(* methods, statement by statement, on the event loop), SpecEngine and     *)
(* SpecConcurrent (validate_capture calls, their invariant tasks and the   *)
(* semaphore), SpecDrift (detect_drift over the capture source and the     *)
(* embedding capability), SpecSeverity (_determine_severity), SpecModels   *)
(* (value objects and their properties), SpecPii (the PII invariant),      *)
(* SpecFinancial (the financial-warnings invariant), SpecFrame (registry   *)
(* reads next to a validate_capture call), SpecRetries and SpecLive (the   *)
(* retry loop with any max_retries, without and with fair scheduling),     *)
(* SpecBuffer (the SDK's capture buffer) and SpecLimiter (concurrent allow *)
(* calls on one key).                                                      *)
(***************************************************************************)
EXTENDS Integers, Sequences, FiniteSets, TLC

VARIABLES
    \* ---- should_apply (SpecApply) ----
    config,        \* the InvariantConfig of the invariant under evaluation
    request,       \* the request of the capture under evaluation
    applied,       \* what should_apply(config, request) last returned: "none" before
    hashSeed,      \* the interpreter's per-process string-hash seed
    remembered,    \* an earlier sampling decision: [id, rate, admitted] or NoSample
    \* ---- InvariantRegistry ----
    registry,      \* InvariantRegistry._invariants: insertion-ordered id -> instance
    \* ---- callers of the registry on the event loop (SpecRegistry) ----
    pc,            \* per caller: the statement of the registry method it is at
    op,            \* per caller: the method called and its argument
    cursor,        \* per caller: position of its dict iteration / id loop
    out,           \* per caller: what the method has built or returned so far
    snapshot,      \* per caller: the registry when its call began
    loopOwner,     \* the caller whose synchronous code the event loop is running
    firstRegistered, \* per id: the first instance passed to register since the
                   \* id was last unregistered
    \* ---- ValidationService (SpecEngine, SpecConcurrent) ----
    semaphore,     \* ValidationService.semaphore: the free slots (its _value)
    callPc,        \* per validate_capture call: where the call is
    callInput,     \* per call: its arguments [request, ids]
    invariants,    \* per call: the local list `invariants` (lines 42-51)
    tasks,         \* per call: one record per coroutine handed to gather
    results,       \* per call: the list validate_capture returned
    \* ---- DriftDetectionService and the capture source (SpecDrift) ----
    driftConfig,   \* DriftDetectionService.config
    store,         \* the capture source: the captures saved so far
    driftPc,       \* where the detect_drift call is
    now,           \* detect_drift's local `now`
    baseline_window,   \* detect_drift's local, after defaulting
    comparison_window, \* detect_drift's local, after defaulting
    baseline_data,     \* what the baseline fetch returned
    comparison_data,   \* what the comparison fetch returned
    metrics,       \* detect_drift's local list `metrics`
    driftOut,      \* what detect_drift returned or raised
    embedCalls,    \* embed_batch calls made by the detect_drift call
    \* ---- _determine_severity (SpecSeverity) ----
    measured,      \* the arguments [value, threshold] of _determine_severity
    severityOut,   \* what it returned for them: "unset" before
    earlier,       \* an earlier call: [value, threshold, severity]
    \* ---- value objects of domain/models (SpecModels) ----
    ctorCall,      \* the constructor call made: [cls, args]
    built,         \* its outcome: the object, or the ValueError raised
    props,         \* the properties read from the object
    \* ---- PIILeakageInvariant (SpecPii) ----
    response_text, \* context.response.text, as its space-separated segments
    piiResult,     \* what PIILeakageInvariant.validate returned
    \* ---- FinancialWarningsInvariant (SpecFinancial) ----
    finText,       \* context.response.text, as its space-separated segments
    finResult,     \* what FinancialWarningsInvariant.validate returned
    \* ---- the SDK's CaptureBuffer (SpecBuffer) ----
    max_size,      \* CaptureBuffer.max_size
    buffer,        \* CaptureBuffer._buffer
    lockHolder,    \* CaptureBuffer._lock: the task inside `async with`, or None
    lockWaiters,   \* CaptureBuffer._lock: the tasks waiting in acquire(), in order
    bufPc,         \* per task: idle, waiting (for the lock), sending, sleeping,
                   \* stopped
    pending,       \* per task: the event of its add call
    sent,          \* the batches handed to the transport, with their outcome
    added,         \* the events appended to _buffer so far, in order
    nextEvent,     \* the events created so far, plus one
    \* ---- TokenBucketRateLimiter (SpecLimiter) ----
    capacity,             \* allow's argument, the same in every call
    refill_rate_per_sec,  \* allow's argument, the same in every call
    wallClock,            \* int(time.time())
    bucket,               \* the hash stored in Redis under bucket_key
    allowCalls,           \* per task: its allow call, position and locals
    granted,              \* the allow calls that returned True so far
    started               \* the allow calls made so far

applyVars == <<config, request, applied, hashSeed, remembered>>
registryVars == <<registry>>
callerVars == <<pc, op, cursor, out, snapshot, loopOwner, firstRegistered>>
engineVars == <<semaphore, callPc, callInput, invariants, tasks, results>>
driftVars == <<driftConfig, store, driftPc, now, baseline_window,
               comparison_window, baseline_data, comparison_data, metrics,
               driftOut, embedCalls>>
severityVars == <<measured, severityOut, earlier>>
modelVars == <<ctorCall, built, props>>
piiVars == <<response_text, piiResult>>
finVars == <<finText, finResult>>
bufferVars == <<max_size, buffer, lockHolder, lockWaiters, bufPc, pending, sent,
                added, nextEvent>>
limiterVars == <<capacity, refill_rate_per_sec, wallClock, bucket, allowCalls,
                 granted, started>>
vars == <<applyVars, registryVars, callerVars, engineVars, driftVars,
          severityVars, modelVars, piiVars, finVars, bufferVars, limiterVars>>

\* What the actions of one specification leave alone.
validationVars == <<applyVars, registryVars, callerVars, engineVars>>
outsideApply == <<registryVars, callerVars, engineVars, driftVars,
                  severityVars, modelVars, piiVars, finVars, bufferVars,
    limiterVars>>
outsideRegistry == <<applyVars, engineVars, driftVars, severityVars, modelVars,
                     piiVars, finVars, bufferVars,
    limiterVars>>
outsideEngine == <<applyVars, registryVars, callerVars, driftVars,
                   severityVars, modelVars, piiVars, finVars, bufferVars,
    limiterVars>>
outsideDrift == <<validationVars, severityVars, modelVars, piiVars, finVars, bufferVars,
    limiterVars>>
outsideSeverity == <<validationVars, driftVars, modelVars, piiVars, finVars, bufferVars,
    limiterVars>>
outsideModels == <<validationVars, driftVars, severityVars, piiVars, finVars, bufferVars,
    limiterVars>>
outsidePii == <<validationVars, driftVars, severityVars, modelVars, finVars, bufferVars,
    limiterVars>>
outsideFinancial == <<validationVars, driftVars, severityVars, modelVars,
                      piiVars, bufferVars,
    limiterVars>>
outsideBuffer == <<validationVars, driftVars, severityVars, modelVars, piiVars,
                   finVars, limiterVars>>
outsideLimiter == <<validationVars, driftVars, severityVars, modelVars, piiVars,
                    finVars, bufferVars>>

None == "None"

(***************************************************************************)
(* Requests.  LLMRequest.id is a UUID; context holds application_name,     *)
(* user_id and ab_variant.                                                 *)
(***************************************************************************)
RequestIds ==
    { "00000000-0000-0000-0000-000000000050",
      "00000000-0000-0000-0000-000000000065",
      "00000000-0000-0000-0000-00000000000e",
      "00000000-0000-0000-0000-000000000043" }

Applications == {"default", "billing"}
UserIds == {"u1"}
Variants == {"A"}

Requests ==
    [ id : RequestIds,
      application_name : Applications,
      user_id : UserIds \cup {None},
      ab_variant : Variants \cup {None} ]

(***************************************************************************)
(* InvariantConfig.  sampling_rate is held in thousandths (0.075 is 75):   *)
(* __post_init__ admits exactly 0 < sampling_rate <= 1.                    *)
(***************************************************************************)
RateOne == 1000

SamplingRates == {75, 500, RateOne}

ScopeConfigs ==
    [ scope : {"all_requests", "sample_based"},
      applications : {{}}, user_ids : {{}}, variant : {None} ]
    \cup [ scope : {"specific_applications"},
           applications : {{}, {"billing"}}, user_ids : {{}}, variant : {None} ]
    \cup [ scope : {"specific_users"},
           applications : {{}}, user_ids : {{}, {"u1"}}, variant : {None} ]
    \cup [ scope : {"ab_variant"},
           applications : {{}}, user_ids : {{}}, variant : {None, "A"} ]

InvariantConfigs ==
    { [ enabled |-> e, scope |-> s.scope, applications |-> s.applications,
        user_ids |-> s.user_ids, variant |-> s.variant, sampling_rate |-> r ] :
      e \in BOOLEAN, s \in ScopeConfigs, r \in SamplingRates }

(***************************************************************************)
(* int(hashlib.md5(str(request.id).encode("utf-8")).hexdigest(), 16) of    *)
(* the four UUIDs above, reduced modulo 10^6 (which keeps the value        *)
(* modulo 100 that the code uses).  MD5 takes the text and nothing else.   *)
(***************************************************************************)
Md5Int(text) ==
    CASE text = "00000000-0000-0000-0000-000000000050" -> 559900
      [] text = "00000000-0000-0000-0000-000000000065" -> 548608
      [] text = "00000000-0000-0000-0000-00000000000e" -> 91650
      [] text = "00000000-0000-0000-0000-000000000043" -> 966051

(***************************************************************************)
(* AbstractInvariant.should_apply, branch by branch.                       *)
(***************************************************************************)

\* Scope checks under every scope, whatever config.scope says.
ScopeAdmitsAnyScope(cfg, req) ==
    /\ req.application_name \in cfg.applications
    /\ req.user_id \in cfg.user_ids
    /\ req.ab_variant = cfg.variant

\* Lines 109-122: the scope checks; scope_filters.get(key, []) is the empty
\* allow-list when the key is absent, .get("variant") is None when absent.
ScopeAdmits(cfg, req) ==
    IF cfg.scope = "specific_applications"
    THEN req.application_name \in cfg.applications
    ELSE IF cfg.scope = "specific_users"
    THEN req.user_id \in cfg.user_ids
    ELSE IF cfg.scope = "ab_variant"
    THEN req.ab_variant = cfg.variant
    ELSE TRUE

\* The builtin, per-process salted string hash in place of MD5.
SamplingAdmitsSalted(rate, requestId) ==
    ~ ((((Md5Int(requestId) + 93 * hashSeed) % 100) * 10) > rate)

\* Lines 128-132: not ((request_hash % 100) / 100.0 > sampling_rate),
\* with both sides scaled by 1000.
SamplingAdmits(rate, requestId) ==
    ~ (((Md5Int(requestId) % 100) * 10) > rate)

\* Sampling consulted as an alternative to the scope check, not after it.
ShouldApplyScopeOrSampling(cfg, req) ==
    /\ cfg.enabled
    /\ \/ ScopeAdmits(cfg, req)
       \/ cfg.sampling_rate < RateOne /\ SamplingAdmits(cfg.sampling_rate, req.id)

\* Lines 102-134.
ShouldApply(cfg, req) ==
    IF ~ cfg.enabled THEN FALSE
    ELSE IF ~ ScopeAdmits(cfg, req) THEN FALSE
    ELSE IF cfg.sampling_rate < RateOne /\ ~ SamplingAdmits(cfg.sampling_rate, req.id)
    THEN FALSE
    ELSE TRUE

(***************************************************************************)
(* Invariant instances.  Each name is one object; "pii" and "pii2" are two *)
(* objects of the same class, so they carry the same metadata.id.          *)
(***************************************************************************)
DefaultMaxRetries == 2
DefaultTimeoutMs == 5000

Invariants == {"pii", "pii2", "fin", "tpl"}

\* InvariantConfig's defaults (invariant.py lines 39-47).
DefaultConfig ==
    [ enabled |-> TRUE, scope |-> "all_requests", applications |-> {},
      user_ids |-> {}, variant |-> None, sampling_rate |-> RateOne,
      timeout_ms |-> DefaultTimeoutMs, retry_on_error |-> TRUE,
      max_retries |-> DefaultMaxRetries ]

\* invariant.config
InvConfig(inv) ==
    CASE inv = "pii"  -> DefaultConfig
      [] inv = "pii2" -> [DefaultConfig EXCEPT !.retry_on_error = FALSE,
                                               !.timeout_ms = 0]
      [] inv = "fin"  -> [DefaultConfig EXCEPT !.scope = "specific_applications",
                                               !.applications = {"billing"},
                                               !.max_retries = 1,
                                               !.timeout_ms = 50]
      [] inv = "tpl"  -> [DefaultConfig EXCEPT !.enabled = FALSE]
      [] inv = "neg"  -> [DefaultConfig EXCEPT !.max_retries = -1]

\* invariant.metadata.id
MetadataId(inv) ==
    CASE inv \in {"pii", "pii2"} -> "safety.pii_leakage"
      [] inv = "fin" -> "compliance.financial_warnings"
      [] inv \in {"tpl", "neg"} -> "custom.template"

\* invariant.metadata.category
MetadataCategory(inv) ==
    CASE inv \in {"pii", "pii2"} -> "safety"
      [] inv = "fin" -> "compliance"
      [] inv \in {"tpl", "neg"} -> "custom"

InvariantIds ==
    {"safety.pii_leakage", "compliance.financial_warnings", "custom.template",
     "unknown.id"}

Categories == {"safety", "compliance", "custom"}

(***************************************************************************)
(* The dict InvariantRegistry._invariants: a sequence of [id, inv] entries *)
(* in insertion order, at most one entry per id.                           *)
(***************************************************************************)
Keys(d) == {d[i].id : i \in DOMAIN d}

\* dict.get(k): the value, or None.
DictGet(d, k) ==
    IF k \in Keys(d) THEN d[CHOOSE i \in DOMAIN d : d[i].id = k].inv ELSE None

\* d[k] = v: replaces the value of an existing key in place, appends a new key.
DictSet(d, k, v) ==
    IF k \in Keys(d)
    THEN [i \in DOMAIN d |-> IF d[i].id = k THEN [id |-> k, inv |-> v] ELSE d[i]]
    ELSE Append(d, [id |-> k, inv |-> v])

\* del d[k]
DictDel(d, k) == SelectSeq(d, LAMBDA e : e.id # k)

\* list(d.values())
Values(d) == [i \in DOMAIN d |-> d[i].inv]

(***************************************************************************)
(* Calls into the registry.  An Optional[List[str]] argument is the record *)
(* [given, list]; None is [given |-> FALSE].                               *)
(***************************************************************************)
MaxIds == 2

Callers == {"t1", "t2"}

IdLists == UNION {[1..n -> InvariantIds] : n \in 0..MaxIds}

NoIds == [given |-> FALSE, list |-> << >>]

OptionalIdLists == {NoIds} \cup [given : {TRUE}, list : IdLists]

NoOp == [name |-> None, arg |-> None, ids |-> NoIds]

RegistryOps ==
    [name : {"register"}, arg : Invariants, ids : {NoIds}]
    \cup [name : {"unregister", "get"}, arg : InvariantIds, ids : {NoIds}]
    \cup [name : {"get_all", "get_enabled"}, arg : {None}, ids : {NoIds}]
    \cup [name : {"get_by_category"}, arg : Categories, ids : {NoIds}]
    \cup [name : {"select"}, arg : {None}, ids : OptionalIdLists]

NoOut == [list |-> << >>, item |-> None, raised |-> None]

\* Python's truth value of an Optional[List[str]]: None and [] are false.
Truthy(ids) == ids.given /\ Len(ids.list) > 0

(***************************************************************************)
(* ValidationService: data.                                                *)
(***************************************************************************)
MaxParallel == 2

Calls == {"v1", "v2"}

\* No call yet: no request (a request record of no one), no ids.
NoInput ==
    [request |-> [id |-> None, application_name |-> None, user_id |-> None,
                  ab_variant |-> None],
     ids |-> NoIds]

\* ValidationResult, by the fields the engine sets or reads.
NoResult == [invariant_id |-> None, status |-> None, message |-> None, timeout_ms |-> 0]

\* A task: the coroutine _execute_single_invariant(inv, context) in gather.
\*   pc         waiting (for the semaphore), running (validate under wait_for),
\*              backoff (asyncio.sleep), returned, raised, cancelled
\*   attempt    the loop variable of line 106
\*   attempts   how many times validate has been called
\*   timeouts   how many of those calls were cut off by the timeout
\*   sleep_ms   the length of the current or last backoff sleep
\*   cancelling a cancellation has been requested and not yet delivered
\*   cancelledAt the pc at which the cancellation was delivered
NewTask(inv) ==
    [ inv |-> inv, pc |-> "waiting", attempt |-> 0, attempts |-> 0, timeouts |-> 0,
      sleep_ms |-> 0, cancelling |-> FALSE, cancelledAt |-> None,
      result |-> NoResult ]

InitEngineVars ==
    /\ semaphore = MaxParallel
    /\ callPc = [c \in Calls |-> "idle"]
    /\ callInput = [c \in Calls |-> NoInput]
    /\ invariants = [c \in Calls |-> << >>]
    /\ tasks = [c \in Calls |-> << >>]
    /\ results = [c \in Calls |-> << >>]

(***************************************************************************)
(* SpecApply: invariants are configured, captures arrive, should_apply is  *)
(* evaluated, and the process may be restarted between evaluations.        *)
(***************************************************************************)
\* The value a Python call returned, as recorded by the model.
(***************************************************************************)
(* Drift detection data.  Times are whole hours; a capture is identified   *)
(* by its application and its captured_at.                                 *)
(***************************************************************************)
MaxTime == 2
MaxSamples == 2

Times == 0..MaxTime

\* CaptureEventModel rows: application_name, captured_at.
Captures ==
    [application_name : {"default"}, captured_at : Times]
    \cup [application_name : {"billing"}, captured_at : {MaxTime - 1}]

\* DriftWindow(start, end, label); NoWindow stands for the argument None.
NoWindow == [start |-> 0, end |-> 0, label |-> None]

DriftWindow(start, end, label) == [start |-> start, end |-> end, label |-> label]

\* DriftWindow.contains
Contains(w, t) == w.start <= t /\ t <= w.end

\* Windows a caller passes explicitly.
GivenWindows == {NoWindow, DriftWindow(0, 1, "given")}

\* DriftDetectionConfig: window lengths, minimum sample count and the
\* thresholds (thousandths), which keep their defaults.
DriftDetectionConfigs ==
    [ baseline_window_hours : {1, 2},
      comparison_window_hours : {1, 2},
      min_samples_required : 0..MaxSamples,
      kl_divergence_threshold : {100},
      js_divergence_threshold : {100},
      cosine_distance_threshold : {150},
      response_length_change_threshold : {300},
      latency_change_threshold : {500},
      cost_change_threshold : {300} ]

NoDriftOut == [kind |-> "none", value |-> << >>, source |-> None]

InitDriftVars ==
    /\ driftConfig = [ baseline_window_hours |-> 2, comparison_window_hours |-> 1,
                       min_samples_required |-> 1,
                       kl_divergence_threshold |-> 100,
                       js_divergence_threshold |-> 100,
                       cosine_distance_threshold |-> 150,
                       response_length_change_threshold |-> 300,
                       latency_change_threshold |-> 500,
                       cost_change_threshold |-> 300 ]
    /\ store = {}
    /\ driftPc = "idle"
    /\ now = 0
    /\ baseline_window = NoWindow
    /\ comparison_window = NoWindow
    /\ baseline_data = {}
    /\ comparison_data = {}
    /\ metrics = << >>
    /\ driftOut = NoDriftOut
    /\ embedCalls = 0

NoEarlier == [value |-> 0, threshold |-> 0, severity |-> "unset"]

InitSeverityVars ==
    /\ measured = [value |-> 0, threshold |-> 100]
    /\ severityOut = "unset"
    /\ earlier = NoEarlier

NoCall == [cls |-> None]
NoObject == [outcome |-> "none"]
NoProps == [read |-> FALSE]

InitModelVars ==
    /\ ctorCall = NoCall
    /\ built = NoObject
    /\ props = NoProps

NoPiiResult == [status |-> "unset", evidence |-> << >>]

InitPiiVars ==
    /\ response_text = << >>
    /\ piiResult = NoPiiResult

\* The tasks that use one CaptureBuffer: two callers of add, one caller of
\* flush (LLMReliabilityClient.stop) and the periodic flusher.
Adders == {"a1", "a2"}
BufferTasks == Adders \cup {"fl", "bg"}

\* Where a task rests between two calls: the periodic flusher sleeps.
Rest(p) == IF p = "bg" THEN "sleeping" ELSE "idle"

\* SDKConfig.buffer_max_size
DefaultBufferMaxSize == 1000

InitBufferVars ==
    /\ max_size = DefaultBufferMaxSize
    /\ buffer = << >>
    /\ lockHolder = None
    /\ lockWaiters = << >>
    /\ bufPc = [p \in BufferTasks |-> Rest(p)]
    /\ pending = [p \in BufferTasks |-> 0]
    /\ sent = << >>
    /\ added = << >>
    /\ nextEvent = 1

\* The tasks that call allow for the one key.
LimiterTasks == {"r1", "r2"}

NoBucket == [exists |-> FALSE, tokens |-> 0, ts |-> 0]
NoAllow == [pc |-> "idle", now |-> 0, tokens |-> 0, allowed |-> FALSE]

InitLimiterVars ==
    /\ capacity = 0
    /\ refill_rate_per_sec = 0
    /\ wallClock = 0
    /\ bucket = NoBucket
    /\ allowCalls = [p \in LimiterTasks |-> NoAllow]
    /\ granted = 0
    /\ started = 0

InitFinVars ==
    /\ finText = << >>
    /\ finResult = NoPiiResult

Returned(b) == IF b THEN "True" ELSE "False"

NoSample == [id |-> None, rate |-> 0, admitted |-> FALSE]

InitApplyVars ==
    /\ config = [enabled |-> TRUE, scope |-> "all_requests", applications |-> {},
                 user_ids |-> {}, variant |-> None, sampling_rate |-> RateOne]
    /\ request = [id |-> "00000000-0000-0000-0000-000000000050",
                  application_name |-> "default", user_id |-> None,
                  ab_variant |-> None]
    /\ applied = "none"
    /\ hashSeed = 0
    /\ remembered = NoSample

InitRegistryVars ==
    registry = << >>

InitCallerVars ==
    /\ pc = [p \in Callers |-> "idle"]
    /\ op = [p \in Callers |-> NoOp]
    /\ cursor = [p \in Callers |-> 1]
    /\ out = [p \in Callers |-> NoOut]
    /\ snapshot = [p \in Callers |-> << >>]
    /\ loopOwner = None
    /\ firstRegistered = [k \in InvariantIds |-> None]

\* InvariantConfig(...) of a new invariant instance.
Configure(cfg) ==
    /\ config' = cfg
    /\ applied' = "none"
    /\ UNCHANGED <<request, hashSeed, remembered, outsideApply>>

\* A capture with another request.
Arrive(req) ==
    /\ request' = req
    /\ applied' = "none"
    /\ UNCHANGED <<config, hashSeed, remembered, outsideApply>>

\* invariant.should_apply(context)
Evaluate ==
    /\ applied' = Returned(ShouldApply(config, request))
    /\ UNCHANGED <<config, request, hashSeed, remembered, outsideApply>>

\* An observer notes the sampling decision just made (should_apply's result
\* when the invariant is enabled, its scope admits the request and
\* sampling_rate < 1).
Remember ==
    /\ applied # "none"
    /\ config.enabled /\ ScopeAdmits(config, request)
    /\ config.sampling_rate < RateOne
    /\ remembered' = [id |-> request.id, rate |-> config.sampling_rate,
                      admitted |-> (applied = "True")]
    /\ UNCHANGED <<config, request, applied, hashSeed, outsideApply>>

\* The process exits and starts again: a new string-hash seed.
Restart ==
    /\ hashSeed' = 1 - hashSeed
    /\ applied' = "none"
    /\ UNCHANGED <<config, request, remembered, outsideApply>>

NextApply ==
    \/ \E cfg \in InvariantConfigs : Configure(cfg)
    \/ \E req \in Requests : Arrive(req)
    \/ Evaluate
    \/ Remember
    \/ Restart

InitApply ==
    /\ InitApplyVars /\ InitRegistryVars /\ InitCallerVars /\ InitEngineVars
    /\ InitDriftVars /\ InitSeverityVars /\ InitModelVars /\ InitPiiVars
    /\ InitFinVars /\ InitBufferVars /\ InitLimiterVars

SpecApply == InitApply /\ [][NextApply]_vars

\* C9: an enabled invariant with scope ALL_REQUESTS and sampling_rate 1.0
\* applies to every capture, whatever its request id, user, application or
\* A/B variant.
C9_UnscopedFullRateAlwaysApplies ==
    (applied # "none" /\ config.enabled /\ config.scope = "all_requests"
        /\ config.sampling_rate = RateOne)
    => applied = "True"

\* should_apply returned true for an unscoped, fully sampled, enabled invariant
\* on a request that names a user, a non-default application and a variant.
C9_Witness ==
    /\ applied = "True"
    /\ config.enabled /\ config.scope = "all_requests"
    /\ config.sampling_rate = RateOne
    /\ request.user_id = "u1" /\ request.application_name = "billing"
    /\ request.ab_variant = "A"

\* C10: for sampling_rate r < 1 the sampling decision is a function of the
\* request id and r alone: the request is admitted iff (md5 of the request id
\* mod 100) / 100 <= r, and it agrees with every decision noted earlier for
\* the same request id and rate, whatever instance made it and whatever
\* happened in between (other evaluations, a restart).
C10_SamplingDeterministic ==
    (applied # "none" /\ config.enabled /\ ScopeAdmits(config, request)
        /\ config.sampling_rate < RateOne)
    => /\ (applied = "True") = ((Md5Int(request.id) % 100) * 10 <= config.sampling_rate)
       /\ (remembered.id = request.id /\ remembered.rate = config.sampling_rate)
            => remembered.admitted = (applied = "True")

\* A request whose bucket equals the rate (50/100 = 0.5) is admitted again,
\* after a restart, by an invariant of another scope than the one remembered.
C10_Witness ==
    /\ applied = "True" /\ hashSeed = 1
    /\ config.enabled /\ config.scope = "ab_variant"
    /\ config.sampling_rate = 500
    /\ Md5Int(request.id) % 100 = 50
    /\ remembered.id = request.id /\ remembered.rate = 500
    /\ remembered.admitted

\* C11: should_apply returns false for a disabled invariant; when it returns
\* true under scope SPECIFIC_APPLICATIONS the request's application name is in
\* the allow-list, under SPECIFIC_USERS the request's user id is in the user
\* list, under AB_VARIANT the request's variant equals the configured variant;
\* so a request its scope check rejects is never admitted by sampling.
C11_DisabledAndScopeRejectionsAreFinal ==
    applied # "none" =>
        /\ (~ config.enabled) => applied = "False"
        /\ (applied = "True" /\ config.scope = "specific_applications")
             => request.application_name \in config.applications
        /\ (applied = "True" /\ config.scope = "specific_users")
             => request.user_id \in config.user_ids
        /\ (applied = "True" /\ config.scope = "ab_variant")
             => request.ab_variant = config.variant

\* should_apply returned false for an enabled invariant scoped to an
\* application the request does not come from, although the request's bucket
\* (0) is below the sampling rate.
C11_Witness ==
    /\ applied = "False"
    /\ config.enabled /\ config.scope = "specific_applications"
    /\ config.applications = {"billing"}
    /\ request.application_name = "default"
    /\ config.sampling_rate = 500
    /\ Md5Int(request.id) % 100 = 0

(***************************************************************************)
(* SpecRegistry: callers on one event loop call the registry's methods.    *)
(* Each method is taken statement by statement.  The methods are plain     *)
(* (non-async) functions without an await, and the selection step of       *)
(* validate_capture (lines 42-51) has none either, so the loop never       *)
(* switches to another caller inside them.                                 *)
(***************************************************************************)

\* A scheduler that may switch callers between any two statements.
MayRunPreemptive(p) == TRUE

\* The event loop runs p's next statement only if no other caller's
\* synchronous code is on the loop (invariant.py lines 163-183 and
\* validation_service.py lines 42-51 hold no await).
MayRun(p) == loopOwner \in {None, p}

Entry(o) ==
    CASE o.name = "register" -> "register_check"
      [] o.name = "unregister" -> "unregister_check"
      [] o.name = "get" -> "get"
      [] o.name \in {"get_all", "get_enabled", "get_by_category"} -> "iterate"
      [] o.name = "select" -> IF Truthy(o.ids) THEN "select_test" ELSE "iterate"

\* The filter of the list comprehension that iterates _invariants.values().
Keeps(o, inv) ==
    CASE o.name = "get_all" -> TRUE
      [] o.name = "get_by_category" -> MetadataCategory(inv) = o.arg
      [] o.name \in {"get_enabled", "select"} -> InvConfig(inv).enabled

\* p's call returns or raises: its code leaves the loop.
Finish(p) ==
    /\ pc' = [pc EXCEPT ![p] = "done"]
    /\ loopOwner' = IF loopOwner = p THEN None ELSE loopOwner

\* p's call goes on to its next statement at label l.
Goto(p, l) ==
    /\ pc' = [pc EXCEPT ![p] = l]
    /\ loopOwner' = p

\* A caller invokes a registry method (or validate_capture's selection).
Call(p, o) ==
    /\ pc[p] = "idle"
    /\ \A q \in Callers : pc[q] # "done"
    /\ MayRun(p)
    /\ Goto(p, Entry(o))
    /\ op' = [op EXCEPT ![p] = o]
    /\ cursor' = [cursor EXCEPT ![p] = 1]
    /\ out' = [out EXCEPT ![p] = NoOut]
    /\ snapshot' = [snapshot EXCEPT ![p] = registry]
    /\ firstRegistered' =
         IF o.name = "register" /\ firstRegistered[MetadataId(o.arg)] = None
         THEN [firstRegistered EXCEPT ![MetadataId(o.arg)] = o.arg]
         ELSE firstRegistered
    /\ UNCHANGED <<registry, outsideRegistry>>

\* register without the membership test.
RegisterCheckMissing(p) ==
    /\ pc[p] = "register_check"
    /\ MayRun(p)
    /\ Goto(p, "register_set")
    /\ UNCHANGED <<registry, op, cursor, out, snapshot, firstRegistered, outsideRegistry>>

\* register, lines 164-166: raise ValueError if the id is present.
RegisterCheck(p) ==
    /\ pc[p] = "register_check"
    /\ MayRun(p)
    /\ IF MetadataId(op[p].arg) \in Keys(registry)
       THEN /\ out' = [out EXCEPT ![p].raised = "ValueError"]
            /\ Finish(p)
       ELSE /\ Goto(p, "register_set")
            /\ UNCHANGED out
    /\ UNCHANGED <<registry, op, cursor, snapshot, firstRegistered, outsideRegistry>>

\* register, line 167.
RegisterSet(p) ==
    /\ pc[p] = "register_set"
    /\ MayRun(p)
    /\ registry' = DictSet(registry, MetadataId(op[p].arg), op[p].arg)
    /\ Finish(p)
    /\ UNCHANGED <<op, cursor, out, snapshot, firstRegistered, outsideRegistry>>

\* unregister, line 170.
UnregisterCheck(p) ==
    /\ pc[p] = "unregister_check"
    /\ MayRun(p)
    /\ IF op[p].arg \in Keys(registry)
       THEN /\ Goto(p, "unregister_del")
            /\ UNCHANGED firstRegistered
       ELSE /\ Finish(p)
            /\ firstRegistered' = [firstRegistered EXCEPT ![op[p].arg] = None]
    /\ UNCHANGED <<registry, op, cursor, out, snapshot, outsideRegistry>>

\* unregister, line 171: del raises KeyError if the key has gone meanwhile.
UnregisterDel(p) ==
    /\ pc[p] = "unregister_del"
    /\ MayRun(p)
    /\ IF op[p].arg \in Keys(registry)
       THEN /\ registry' = DictDel(registry, op[p].arg)
            /\ UNCHANGED out
       ELSE /\ out' = [out EXCEPT ![p].raised = "KeyError"]
            /\ UNCHANGED registry
    /\ firstRegistered' = [firstRegistered EXCEPT ![op[p].arg] = None]
    /\ Finish(p)
    /\ UNCHANGED <<op, cursor, snapshot, outsideRegistry>>

\* get that takes the entry out of the mapping (dict.pop).
GetPops(p) ==
    /\ pc[p] = "get"
    /\ MayRun(p)
    /\ out' = [out EXCEPT ![p].item = DictGet(registry, op[p].arg)]
    /\ registry' = DictDel(registry, op[p].arg)
    /\ Finish(p)
    /\ UNCHANGED <<op, cursor, snapshot, firstRegistered, outsideRegistry>>

\* get, line 174.
Get(p) ==
    /\ pc[p] = "get"
    /\ MayRun(p)
    /\ out' = [out EXCEPT ![p].item = DictGet(registry, op[p].arg)]
    /\ Finish(p)
    /\ UNCHANGED <<registry, op, cursor, snapshot, firstRegistered, outsideRegistry>>

\* get_by_category, get_all, get_enabled (lines 177, 180, 183): one step of
\* the iteration over _invariants.values().  The dict iterator raises
\* RuntimeError when the dict's size differs from the size it started with.
Iterate(p) ==
    /\ pc[p] = "iterate"
    /\ MayRun(p)
    /\ IF Len(registry) # Len(snapshot[p])
       THEN /\ out' = [out EXCEPT ![p].raised = "RuntimeError"]
            /\ Finish(p)
            /\ UNCHANGED cursor
       ELSE IF cursor[p] > Len(registry)
       THEN /\ Finish(p)
            /\ UNCHANGED <<out, cursor>>
       ELSE /\ out' = IF Keeps(op[p], registry[cursor[p]].inv)
                      THEN [out EXCEPT ![p].list = Append(@, registry[cursor[p]].inv)]
                      ELSE out
            /\ cursor' = [cursor EXCEPT ![p] = @ + 1]
            /\ Goto(p, "iterate")
    /\ UNCHANGED <<registry, op, snapshot, firstRegistered, outsideRegistry>>

\* validate_capture, lines 44-49: the comprehension's condition for the next
\* id (line 47), or, past the last id, the filter of line 49.
SelectTest(p) ==
    /\ pc[p] = "select_test"
    /\ MayRun(p)
    /\ IF cursor[p] > Len(op[p].ids.list)
       THEN /\ out' = [out EXCEPT ![p].list = SelectSeq(@, LAMBDA i : i # None)]
            /\ Finish(p)
            /\ UNCHANGED cursor
       ELSE IF DictGet(registry, op[p].ids.list[cursor[p]]) # None
       THEN /\ Goto(p, "select_take")
            /\ UNCHANGED <<out, cursor>>
       ELSE /\ cursor' = [cursor EXCEPT ![p] = @ + 1]
            /\ Goto(p, "select_test")
            /\ UNCHANGED out
    /\ UNCHANGED <<registry, op, snapshot, firstRegistered, outsideRegistry>>

\* validate_capture, line 45: the comprehension's element for the id.
SelectTake(p) ==
    /\ pc[p] = "select_take"
    /\ MayRun(p)
    /\ out' = [out EXCEPT ![p].list =
                  Append(@, DictGet(registry, op[p].ids.list[cursor[p]]))]
    /\ cursor' = [cursor EXCEPT ![p] = @ + 1]
    /\ Goto(p, "select_test")
    /\ UNCHANGED <<registry, op, snapshot, firstRegistered, outsideRegistry>>

\* The caller has taken the call's outcome.
Return(p) ==
    /\ pc[p] = "done"
    /\ pc' = [pc EXCEPT ![p] = "idle"]
    /\ op' = [op EXCEPT ![p] = NoOp]
    /\ cursor' = [cursor EXCEPT ![p] = 1]
    /\ out' = [out EXCEPT ![p] = NoOut]
    /\ snapshot' = [snapshot EXCEPT ![p] = << >>]
    /\ UNCHANGED <<registry, loopOwner, firstRegistered, outsideRegistry>>

NextRegistry ==
    \/ \E p \in Callers, o \in RegistryOps : Call(p, o)
    \/ \E p \in Callers : RegisterCheck(p)
    \/ \E p \in Callers : RegisterSet(p)
    \/ \E p \in Callers : UnregisterCheck(p)
    \/ \E p \in Callers : UnregisterDel(p)
    \/ \E p \in Callers : Get(p)
    \/ \E p \in Callers : Iterate(p)
    \/ \E p \in Callers : SelectTest(p)
    \/ \E p \in Callers : SelectTake(p)
    \/ \E p \in Callers : Return(p)

InitRegistry ==
    /\ InitApplyVars /\ InitRegistryVars /\ InitCallerVars /\ InitEngineVars
    /\ InitDriftVars /\ InitSeverityVars /\ InitModelVars /\ InitPiiVars
    /\ InitFinVars /\ InitBufferVars /\ InitLimiterVars

SpecRegistry == InitRegistry /\ [][NextRegistry]_vars

\* What a read returns on the mapping d, as one expression over d.
ReadOf(o, d) ==
    CASE o.name = "get" -> [NoOut EXCEPT !.item = DictGet(d, o.arg)]
      [] o.name = "get_all" -> [NoOut EXCEPT !.list = Values(d)]
      [] o.name = "get_enabled" \/ (o.name = "select" /\ ~ Truthy(o.ids)) ->
            [NoOut EXCEPT !.list = SelectSeq(Values(d), LAMBDA i : InvConfig(i).enabled)]
      [] o.name = "get_by_category" ->
            [NoOut EXCEPT !.list =
                SelectSeq(Values(d), LAMBDA i : MetadataCategory(i) = o.arg)]
      [] o.name = "select" /\ Truthy(o.ids) ->
            [NoOut EXCEPT !.list =
                SelectSeq([k \in DOMAIN o.ids.list |-> DictGet(d, o.ids.list[k])],
                          LAMBDA i : i # None)]

Reads == {"get", "get_all", "get_enabled", "get_by_category", "select"}
InsideWrite(p) ==
    pc[p] \in {"register_check", "register_set", "unregister_check", "unregister_del"}
MidWrite(p) == pc[p] \in {"register_set", "unregister_del"}
Inside(p) == pc[p] \notin {"idle", "done"}

\* C7: register of an id that is already present raises the duplicate error
\* (ValueError) and leaves the registry as it was; a register of an absent id
\* adds the instance; so the registry holds at most one entry per id, and that
\* entry is the first instance registered for the id since it was last absent.
C7_DuplicateRegisterRejected ==
    /\ \A k \in InvariantIds :
          /\ Cardinality({i \in DOMAIN registry : registry[i].id = k}) <= 1
          /\ k \in Keys(registry) => DictGet(registry, k) = firstRegistered[k]
    /\ \A p \in Callers :
          (pc[p] = "done" /\ op[p].name = "register")
          => IF MetadataId(op[p].arg) \in Keys(snapshot[p])
             THEN out[p].raised = "ValueError" /\ registry = snapshot[p]
             ELSE /\ out[p].raised = None
                  /\ DictGet(registry, MetadataId(op[p].arg)) = op[p].arg

\* A second instance with the id of a registered one was refused.
C7_Witness ==
    \E p \in Callers :
        /\ pc[p] = "done" /\ op[p].name = "register" /\ op[p].arg = "pii2"
        /\ out[p].raised = "ValueError"
        /\ DictGet(registry, "safety.pii_leakage") = "pii"
        /\ Len(registry) = 2

\* C8: two writes (register, unregister) are never in progress together, no
\* other call is in progress while a write is between its test and its
\* mutation, and every read (get, get_all, get_enabled, get_by_category, the
\* selection of validate_capture) returns what the whole read gives on one
\* mapping: the registry as it was when the read began, which is still the
\* registry when the read returns.
C8_RegistryAccessAtomic ==
    /\ \A p, q \in Callers :
          p # q => /\ ~ (InsideWrite(p) /\ InsideWrite(q))
                   /\ ~ (MidWrite(p) /\ Inside(q))
    /\ \A p \in Callers :
          (pc[p] = "done" /\ op[p].name \in Reads)
          => /\ out[p] = ReadOf(op[p], snapshot[p])
             /\ snapshot[p] = registry

\* A selection by ids returned after the registry had been written several
\* times: it resolved one id and dropped the unresolved one.
C8_Witness ==
    \E p \in Callers :
        /\ pc[p] = "done" /\ op[p].name = "select"
        /\ op[p].ids.list = <<"unknown.id", "safety.pii_leakage">>
        /\ out[p].list = <<"pii2">>
        /\ registry = << [id |-> "compliance.financial_warnings", inv |-> "fin"],
                         [id |-> "safety.pii_leakage", inv |-> "pii2"] >>

(***************************************************************************)
(* ValidationService.validate_capture and its tasks.                       *)
(***************************************************************************)
Registered(inv) == [id |-> MetadataId(inv), inv |-> inv]

\* Without ids: every registered invariant, the disabled ones too.
SelectInvariantsAll(reg, ids) ==
    IF Truthy(ids)
    THEN SelectSeq([k \in DOMAIN ids.list |-> DictGet(reg, ids.list[k])],
                   LAMBDA i : i # None)
    ELSE Values(reg)

\* Lines 42-51, which run without an await: the ids that resolve, in the
\* order given, or registry.get_enabled().
SelectInvariants(reg, ids) ==
    IF Truthy(ids)
    THEN SelectSeq([k \in DOMAIN ids.list |-> DictGet(reg, ids.list[k])],
                   LAMBDA i : i # None)
    ELSE SelectSeq(Values(reg), LAMBDA i : InvConfig(i).enabled)

\* Line 54.
Applicable(invs, req) ==
    SelectSeq(invs, LAMBDA i : ShouldApply(InvConfig(i), req))

\* Line 104: invariant.config.timeout_ms or self.default_timeout_ms.
TimeoutMs(inv) ==
    IF InvConfig(inv).timeout_ms # 0 THEN InvConfig(inv).timeout_ms
    ELSE DefaultTimeoutMs

\* Line 105.
EffectiveMaxRetries(inv) ==
    IF InvConfig(inv).retry_on_error THEN InvConfig(inv).max_retries ELSE 0

\* A sleep of the base interval whatever the attempt.
BackoffMsFixed(attempt) == 100

\* Line 135: asyncio.sleep(0.1 * (2 ** attempt)), in milliseconds.
BackoffMs(attempt) == 100 * (2 ^ attempt)

\* What validate returns: AbstractInvariant._create_result (lines 136-154).
CreateResult(inv, status) ==
    [ invariant_id |-> MetadataId(inv), status |-> status,
      message |-> "validated", timeout_ms |-> 0 ]

\* Lines 119-125.
TimeoutResult(inv) ==
    [ invariant_id |-> MetadataId(inv), status |-> "error",
      message |-> "Execution timeout after", timeout_ms |-> TimeoutMs(inv) ]

\* Lines 88-94.
ExecutionErrorResult(inv) ==
    [ invariant_id |-> MetadataId(inv), status |-> "error",
      message |-> "Execution error", timeout_ms |-> 0 ]

\* Positions in a call's task list: a call has at most as many tasks as ids
\* were passed or invariants are registered (three at most).
Positions == 1..(MaxIds + 1)

Terminal(t) == t.pc \in {"returned", "raised", "cancelled"}

\* Inside `async with self.semaphore` (lines 103-135).
HoldsSlot(t) == t.pc \in {"running", "backoff"}

\* gather without return_exceptions: a task's exception is raised to the caller.
GatherRaisesTaskError(ts) == \E i \in DOMAIN ts : ts[i].pc = "raised"

\* Line 77: gather(*tasks, return_exceptions=True) hands exceptions back as
\* values; awaiting it raises nothing of the tasks'.
GatherRaises(ts) == FALSE

\* Lines 79-98: zip(invariants, results); an exception becomes an ERROR result.
ProcessResults(ts) ==
    [i \in DOMAIN ts |->
        IF ts[i].pc = "raised" THEN ExecutionErrorResult(ts[i].inv)
        ELSE ts[i].result]

\* validate_capture(capture_event, invariant_ids) up to the await of line 77:
\* selection, should_apply, one coroutine per applicable invariant.
ValidateCapture(c, req, ids) ==
    /\ callPc[c] = "idle"
    /\ callPc' = [callPc EXCEPT ![c] = "gathering"]
    /\ callInput' = [callInput EXCEPT ![c] = [request |-> req, ids |-> ids]]
    /\ invariants' = [invariants EXCEPT ![c] = SelectInvariants(registry, ids)]
    /\ tasks' = [tasks EXCEPT ![c] =
                    LET app == Applicable(SelectInvariants(registry, ids), req)
                    IN [i \in DOMAIN app |-> NewTask(app[i])]]
    /\ UNCHANGED <<semaphore, results, outsideEngine>>

\* The semaphore does not gate.
AcquireUngated(c, i) ==
    /\ i \in DOMAIN tasks[c]
    /\ tasks[c][i].pc = "waiting" /\ ~ tasks[c][i].cancelling
    /\ semaphore' = semaphore - 1
    /\ tasks' = [tasks EXCEPT ![c][i].pc = "running", ![c][i].attempts = 1]
    /\ UNCHANGED <<callPc, callInput, invariants, results, outsideEngine>>

\* Line 103: `async with self.semaphore` takes a free slot; lines 104-108:
\* the first validate call starts under wait_for.  With max_retries below 0
\* range(max_retries + 1) is empty: the loop body never runs, the coroutine
\* leaves the `async with` at once and returns None.
Acquire(c, i) ==
    /\ i \in DOMAIN tasks[c]
    /\ tasks[c][i].pc = "waiting" /\ ~ tasks[c][i].cancelling
    /\ semaphore > 0
    /\ IF EffectiveMaxRetries(tasks[c][i].inv) < 0
       THEN /\ tasks' = [tasks EXCEPT ![c][i].pc = "returned"]
            /\ UNCHANGED semaphore
       ELSE /\ semaphore' = semaphore - 1
            /\ tasks' = [tasks EXCEPT ![c][i].pc = "running", ![c][i].attempts = 1]
    /\ UNCHANGED <<callPc, callInput, invariants, results, outsideEngine>>

\* Lines 108-110: validate returns a result in time; the task returns it and
\* leaves the `async with`.
ValidateReturns(c, i, status) ==
    /\ i \in DOMAIN tasks[c]
    /\ tasks[c][i].pc = "running" /\ ~ tasks[c][i].cancelling
    /\ tasks' = [tasks EXCEPT ![c][i].pc = "returned",
                              ![c][i].result = CreateResult(tasks[c][i].inv, status)]
    /\ semaphore' = semaphore + 1
    /\ UNCHANGED <<callPc, callInput, invariants, results, outsideEngine>>

\* The last attempt is taken to be the one before.
ValidateTimesOutEarly(c, i) ==
    /\ i \in DOMAIN tasks[c]
    /\ tasks[c][i].pc = "running" /\ ~ tasks[c][i].cancelling
    /\ LET t == tasks[c][i]
       IN IF t.attempt + 1 >= EffectiveMaxRetries(t.inv)
          THEN /\ tasks' = [tasks EXCEPT ![c][i].pc = "returned",
                                         ![c][i].timeouts = @ + 1,
                                         ![c][i].result = TimeoutResult(t.inv)]
               /\ semaphore' = semaphore + 1
          ELSE /\ tasks' = [tasks EXCEPT ![c][i].pc = "backoff",
                                         ![c][i].timeouts = @ + 1,
                                         ![c][i].sleep_ms = BackoffMs(t.attempt)]
               /\ UNCHANGED semaphore
    /\ UNCHANGED <<callPc, callInput, invariants, results, outsideEngine>>

\* Lines 111-125 and 135: wait_for raises TimeoutError; on the last attempt
\* the task returns an ERROR result, otherwise it sleeps, keeping its slot.
ValidateTimesOut(c, i) ==
    /\ i \in DOMAIN tasks[c]
    /\ tasks[c][i].pc = "running" /\ ~ tasks[c][i].cancelling
    /\ LET t == tasks[c][i]
       IN IF t.attempt >= EffectiveMaxRetries(t.inv)
          THEN /\ tasks' = [tasks EXCEPT ![c][i].pc = "returned",
                                         ![c][i].timeouts = @ + 1,
                                         ![c][i].result = TimeoutResult(t.inv)]
               /\ semaphore' = semaphore + 1
          ELSE /\ tasks' = [tasks EXCEPT ![c][i].pc = "backoff",
                                         ![c][i].timeouts = @ + 1,
                                         ![c][i].sleep_ms = BackoffMs(t.attempt)]
               /\ UNCHANGED semaphore
    /\ UNCHANGED <<callPc, callInput, invariants, results, outsideEngine>>

\* Lines 126-135: validate raises another exception; on the last attempt it
\* is re-raised out of the coroutine (through the `async with`), otherwise
\* the task sleeps, keeping its slot.
ValidateRaises(c, i) ==
    /\ i \in DOMAIN tasks[c]
    /\ tasks[c][i].pc = "running" /\ ~ tasks[c][i].cancelling
    /\ LET t == tasks[c][i]
       IN IF t.attempt >= EffectiveMaxRetries(t.inv)
          THEN /\ tasks' = [tasks EXCEPT ![c][i].pc = "raised"]
               /\ semaphore' = semaphore + 1
          ELSE /\ tasks' = [tasks EXCEPT ![c][i].pc = "backoff",
                                         ![c][i].sleep_ms = BackoffMs(t.attempt)]
               /\ UNCHANGED semaphore
    /\ UNCHANGED <<callPc, callInput, invariants, results, outsideEngine>>

\* Line 135 ends, the loop of line 106 goes on: the next validate call.
Retry(c, i) ==
    /\ i \in DOMAIN tasks[c]
    /\ tasks[c][i].pc = "backoff" /\ ~ tasks[c][i].cancelling
    /\ tasks' = [tasks EXCEPT ![c][i].pc = "running",
                              ![c][i].attempt = @ + 1,
                              ![c][i].attempts = @ + 1]
    /\ UNCHANGED <<semaphore, callPc, callInput, invariants, results, outsideEngine>>

\* Lines 77-98 and 62-71: every task is done; gather's list is processed and
\* validate_capture returns it.  A None in the list (a task that made no
\* attempt) makes `r.passed` of line 62 raise AttributeError.
GatherDone(c) ==
    /\ callPc[c] = "gathering"
    /\ \A i \in DOMAIN tasks[c] : tasks[c][i].pc \in {"returned", "raised"}
    /\ IF \/ GatherRaises(tasks[c])
          \/ \E i \in DOMAIN tasks[c] : ProcessResults(tasks[c])[i] = NoResult
       THEN /\ callPc' = [callPc EXCEPT ![c] = "raised"]
            /\ UNCHANGED results
       ELSE /\ callPc' = [callPc EXCEPT ![c] = "returned"]
            /\ results' = [results EXCEPT ![c] = ProcessResults(tasks[c])]
    /\ UNCHANGED <<semaphore, callInput, invariants, tasks, outsideEngine>>

\* The caller cancels the task awaiting validate_capture: the gather future
\* is cancelled, which requests the cancellation of every child not done.
Cancel(c) ==
    /\ callPc[c] = "gathering"
    /\ callPc' = [callPc EXCEPT ![c] = "cancelling"]
    /\ tasks' = [tasks EXCEPT ![c] =
                    [i \in DOMAIN @ |->
                        IF Terminal(@[i]) THEN @[i]
                        ELSE [@[i] EXCEPT !.cancelling = TRUE]]]
    /\ UNCHANGED <<semaphore, callInput, invariants, results, outsideEngine>>

\* CancelledError in a sleeping task does not give the slot back.
DeliverCancelLeaks(c, i) ==
    /\ i \in DOMAIN tasks[c]
    /\ tasks[c][i].cancelling
    /\ tasks' = [tasks EXCEPT ![c][i].pc = "cancelled",
                              ![c][i].cancelling = FALSE,
                              ![c][i].cancelledAt = tasks[c][i].pc]
    /\ semaphore' = IF tasks[c][i].pc = "running" THEN semaphore + 1 ELSE semaphore
    /\ UNCHANGED <<callPc, callInput, invariants, results, outsideEngine>>

\* CancelledError is raised in the task at its await: in the semaphore's
\* acquire (no slot held), or inside the `async with` (wait_for or sleep),
\* where neither except clause catches it and __aexit__ releases the slot.
DeliverCancel(c, i) ==
    /\ i \in DOMAIN tasks[c]
    /\ tasks[c][i].cancelling
    /\ tasks' = [tasks EXCEPT ![c][i].pc = "cancelled",
                              ![c][i].cancelling = FALSE,
                              ![c][i].cancelledAt = tasks[c][i].pc]
    /\ semaphore' = IF HoldsSlot(tasks[c][i]) THEN semaphore + 1 ELSE semaphore
    /\ UNCHANGED <<callPc, callInput, invariants, results, outsideEngine>>

\* Every child is done: the cancelled gather raises CancelledError in
\* validate_capture, which ends the call.
CancelDone(c) ==
    /\ callPc[c] = "cancelling"
    /\ \A i \in DOMAIN tasks[c] : Terminal(tasks[c][i])
    /\ callPc' = [callPc EXCEPT ![c] = "cancelled"]
    /\ UNCHANGED <<semaphore, callInput, invariants, tasks, results, outsideEngine>>

(***************************************************************************)
(* SpecEngine: one validate_capture call with any arguments, against one   *)
(* of several registries.                                                  *)
(***************************************************************************)
EngineRegistries ==
    { << Registered("pii"), Registered("fin"), Registered("tpl") >>,
      << Registered("tpl"), Registered("pii2") >> }

EngineRequests ==
    { r \in Requests : /\ r.id = "00000000-0000-0000-0000-000000000050"
                       /\ r.user_id = None /\ r.ab_variant = None }

Statuses == {"passed", "failed"}

InitEngine ==
    /\ InitApplyVars /\ InitCallerVars /\ InitEngineVars /\ InitDriftVars
    /\ InitSeverityVars /\ InitModelVars /\ InitPiiVars
    /\ InitFinVars /\ InitBufferVars /\ InitLimiterVars
    /\ registry \in EngineRegistries

NextEngine ==
    \/ \E req \in EngineRequests, ids \in OptionalIdLists : ValidateCapture("v1", req, ids)
    \/ \E i \in Positions : Acquire("v1", i)
    \/ \E i \in Positions, st \in Statuses : ValidateReturns("v1", i, st)
    \/ \E i \in Positions : ValidateTimesOut("v1", i)
    \/ \E i \in Positions : ValidateRaises("v1", i)
    \/ \E i \in Positions : Retry("v1", i)
    \/ GatherDone("v1")
    \/ Cancel("v1")
    \/ \E i \in Positions : DeliverCancel("v1", i)
    \/ CancelDone("v1")

SpecEngine == InitEngine /\ [][NextEngine]_vars

(***************************************************************************)
(* SpecConcurrent: two validate_capture calls on the same engine, each     *)
(* over all enabled invariants.                                            *)
(***************************************************************************)
InitConcurrent ==
    /\ InitApplyVars /\ InitCallerVars /\ InitEngineVars /\ InitDriftVars
    /\ InitSeverityVars /\ InitModelVars /\ InitPiiVars
    /\ InitFinVars /\ InitBufferVars /\ InitLimiterVars
    /\ registry = << Registered("fin"), Registered("pii2"), Registered("tpl") >>

NextConcurrent ==
    \/ \E c \in Calls, req \in EngineRequests : ValidateCapture(c, req, NoIds)
    \/ \E c \in Calls, i \in Positions : Acquire(c, i)
    \/ \E c \in Calls, i \in Positions, st \in Statuses : ValidateReturns(c, i, st)
    \/ \E c \in Calls, i \in Positions : ValidateTimesOut(c, i)
    \/ \E c \in Calls, i \in Positions : ValidateRaises(c, i)
    \/ \E c \in Calls, i \in Positions : Retry(c, i)
    \/ \E c \in Calls : GatherDone(c)
    \/ \E c \in Calls : Cancel(c)
    \/ \E c \in Calls, i \in Positions : DeliverCancel(c, i)
    \/ \E c \in Calls : CancelDone(c)

SpecConcurrent == InitConcurrent /\ [][NextConcurrent]_vars

(***************************************************************************)
(* Properties of the engine.                                               *)
(***************************************************************************)
Range(f) == {f[i] : i \in DOMAIN f}

\* The (call, position) pairs of the tasks that are inside the semaphore.
Executing == {ci \in Calls \X Positions :
                 /\ ci[2] \in DOMAIN tasks[ci[1]]
                 /\ HoldsSlot(tasks[ci[1]][ci[2]])}

\* C1: the list validate_capture returns holds exactly one result for each
\* invariant of the applicable set (none missing, none twice) and no result
\* of an invariant outside it.
C1_OneResultPerApplicableInvariant ==
    \A c \in Calls :
        callPc[c] = "returned"
        => LET app == {tasks[c][i].inv : i \in DOMAIN tasks[c]}
           IN /\ \A inv \in app :
                    Cardinality({k \in DOMAIN results[c] :
                        results[c][k].invariant_id = MetadataId(inv)}) = 1
              /\ \A k \in DOMAIN results[c] :
                    \E inv \in app : results[c][k].invariant_id = MetadataId(inv)

\* C2: the number of invariant executions past the gate (running validate or
\* sleeping in backoff), over all calls on the engine, never exceeds
\* max_parallel, and the semaphore counts exactly the remaining slots.
C2_AtMostNExecuting ==
    /\ Cardinality(Executing) <= MaxParallel
    /\ semaphore = MaxParallel - Cardinality(Executing)

\* Both slots are taken by tasks of different calls, one of them asleep in
\* backoff, while a third task waits at the gate.
C2_Witness ==
    /\ Cardinality(Executing) = MaxParallel
    /\ \E i \in DOMAIN tasks["v1"] : tasks["v1"][i].pc = "backoff"
    /\ \E i \in DOMAIN tasks["v2"] : tasks["v2"][i].pc = "running"
    /\ \E c \in Calls : \E i \in DOMAIN tasks[c] : tasks[c][i].pc = "waiting"

\* C3: validate_capture never raises because an invariant's validate raised
\* until its retries ran out: the call returns a list that holds, at the
\* position of each such invariant, a result with status ERROR for it, and at
\* every other position exactly the result that invariant's task returned.
C3_RaisingInvariantDegradesToError ==
    \A c \in Calls :
        /\ callPc[c] # "raised"
        /\ callPc[c] = "returned"
           => /\ Len(results[c]) = Len(tasks[c])
              /\ \A i \in DOMAIN tasks[c] :
                    IF tasks[c][i].pc = "raised"
                    THEN /\ results[c][i].status = "error"
                         /\ results[c][i].invariant_id = MetadataId(tasks[c][i].inv)
                    ELSE results[c][i] = tasks[c][i].result

\* A batch of two returned: the first invariant raised on all three attempts
\* and is reported as ERROR, the second one's FAILED result is intact.
C3_Witness ==
    /\ callPc["v1"] = "returned"
    /\ Len(tasks["v1"]) = 2
    /\ tasks["v1"][1].pc = "raised" /\ tasks["v1"][1].attempts = 3
    /\ tasks["v1"][1].timeouts = 0
    /\ results["v1"][1].status = "error"
    /\ results["v1"][2].status = "failed"

\* C4: an invariant with retry_on_error whose every validate call ran into
\* the timeout has been attempted exactly max_retries + 1 times when its task
\* ends, and the task then returns (does not raise) a result with status
\* ERROR whose message names the timeout in force; the call returns it.
C4_TimeoutExhaustion ==
    \A c \in Calls : \A i \in DOMAIN tasks[c] :
        LET t == tasks[c][i]
        IN (/\ t.pc \in {"returned", "raised"}
            /\ InvConfig(t.inv).retry_on_error
            /\ t.timeouts = t.attempts)
           => /\ t.attempts = InvConfig(t.inv).max_retries + 1
              /\ t.pc = "returned"
              /\ t.result.status = "error"
              /\ t.result.message = "Execution timeout after"
              /\ t.result.timeout_ms = TimeoutMs(t.inv)
              /\ callPc[c] # "raised"
              /\ callPc[c] = "returned" => results[c][i] = t.result

\* The default configuration (max_retries = 2): three attempts, three
\* timeouts, then the ERROR result in the returned list.
C4_Witness ==
    /\ callPc["v1"] = "returned"
    /\ Len(tasks["v1"]) >= 1
    /\ tasks["v1"][1].inv = "pii"
    /\ InvConfig("pii").max_retries = 2
    /\ tasks["v1"][1].attempts = 3 /\ tasks["v1"][1].timeouts = 3
    /\ results["v1"][1].status = "error"
    /\ results["v1"][1].message = "Execution timeout after"

\* C5: once a call has been cancelled, each of its tasks that was not done is
\* cancelled; when the cancellation has completed none of its tasks holds a
\* slot and the semaphore's free slots are max_parallel minus the slots held
\* by tasks of other calls.
C5_CancellationReleasesSlots ==
    \A c \in Calls :
        /\ callPc[c] \in {"cancelling", "cancelled"}
           => \A i \in DOMAIN tasks[c] :
                 Terminal(tasks[c][i]) \/ tasks[c][i].cancelling
        /\ callPc[c] = "cancelled"
           => /\ \A i \in DOMAIN tasks[c] : Terminal(tasks[c][i])
              /\ semaphore = MaxParallel
                    - Cardinality({ci \in Executing : ci[1] # c})

\* A call was cancelled with one task asleep in backoff and one waiting at
\* the gate, while the other call still holds a slot.
C5_Witness ==
    /\ callPc["v1"] = "cancelled"
    /\ \E i \in DOMAIN tasks["v1"] : tasks["v1"][i].cancelledAt = "backoff"
    /\ \E i \in DOMAIN tasks["v1"] : tasks["v1"][i].cancelledAt = "waiting"
    /\ callPc["v2"] = "gathering"
    /\ semaphore = MaxParallel - 1

\* C6: with ids given, the invariants considered are exactly the registry's
\* instances of the given ids that resolve; without ids they are exactly the
\* enabled invariants of the registry; an unresolved id neither makes the
\* call raise nor yields a result; with an empty applicable set the call
\* returns the empty list.
C6_SelectionByIdsOrEnabled ==
    \A c \in Calls :
        callPc[c] # "idle"
        => LET ids == callInput[c].ids
               sel == invariants[c]
           IN /\ Truthy(ids)
                 => /\ {MetadataId(sel[k]) : k \in DOMAIN sel}
                        = Range(ids.list) \cap Keys(registry)
                    /\ \A k \in DOMAIN sel :
                          \E j \in DOMAIN registry : registry[j].inv = sel[k]
              /\ ~ Truthy(ids)
                 => /\ Range(sel) = {registry[j].inv : j \in
                          {j \in DOMAIN registry : InvConfig(registry[j].inv).enabled}}
                    /\ Len(sel) = Cardinality(Range(sel))
              /\ callPc[c] # "raised"
              /\ callPc[c] = "returned"
                 => /\ \A k \in DOMAIN results[c] :
                          results[c][k].invariant_id \in Keys(registry)
                    /\ tasks[c] = << >> => results[c] = << >>

\* A call with an unresolved id only: nothing selected, nothing applicable,
\* and the empty list returned.
C6_Witness ==
    /\ callPc["v1"] = "returned"
    /\ callInput["v1"].ids = [given |-> TRUE, list |-> <<"unknown.id">>]
    /\ invariants["v1"] = << >>
    /\ results["v1"] = << >>

(***************************************************************************)
(* DriftDetectionService._determine_severity.  Values and thresholds are   *)
(* the decimals of the source held in thousandths (0.15 is 150); the code  *)
(* computes with the nearest IEEE-754 doubles.                             *)
(***************************************************************************)

\* float(t/1000) * (k2/2) against the double nearest the decimal product
\* t*k2/2000, in units in the last place, as CPython computes it
\* (0.1 * 1.5 is 0.15000000000000002, 0.3 * 3.0 is 0.8999999999999999).
ProductUlps(t, k2) ==
    CASE t = 100 /\ k2 = 3 -> 1
      [] t = 100 /\ k2 = 4 -> 0
      [] t = 100 /\ k2 = 6 -> 1
      [] t = 150 /\ k2 = 3 -> -1
      [] t = 150 /\ k2 = 4 -> 0
      [] t = 150 /\ k2 = 6 -> -1
      [] t = 300 /\ k2 = 3 -> -1
      [] t = 300 /\ k2 = 4 -> 0
      [] t = 300 /\ k2 = 6 -> -1
      [] t = 500 /\ k2 \in {3, 4, 6} -> 0

\* value < threshold * (k2/2) in doubles: decided by the decimals unless the
\* value is the decimal product itself, where the product's rounding decides.
LessThanProduct(value, threshold, k2) ==
    \/ value * 2 < threshold * k2
    \/ value * 2 = threshold * k2 /\ ProductUlps(threshold, k2) > 0

\* The brackets with HIGH and MEDIUM exchanged.
DetermineSeverityExchanged(value, threshold) ==
    IF value < threshold THEN "none"
    ELSE IF LessThanProduct(value, threshold, 3) THEN "low"
    ELSE IF LessThanProduct(value, threshold, 4) THEN "high"
    ELSE IF LessThanProduct(value, threshold, 6) THEN "medium"
    ELSE "critical"

\* Lines 332-341.
DetermineSeverity(value, threshold) ==
    IF value < threshold THEN "none"
    ELSE IF LessThanProduct(value, threshold, 3) THEN "low"
    ELSE IF LessThanProduct(value, threshold, 4) THEN "medium"
    ELSE IF LessThanProduct(value, threshold, 6) THEN "high"
    ELSE "critical"

Abs(x) == IF x < 0 THEN 0 - x ELSE x

(***************************************************************************)
(* SpecDrift: DriftDetectionService.detect_drift over a capture source and *)
(* an embedding capability that may fail.                                  *)
(***************************************************************************)
FetchLimit == 10000

\* What the numeric code measures is an input here: divergences, distances
\* and absolute relative changes are not negative, the latency and cost
\* changes are signed.
MeasuredValues == {50, 450}
SignedValues == {-900, 450}

\* DriftMetric(...) as the families build it.
DriftMetric(type, name, value, threshold, severity) ==
    [drift_type |-> type, metric_name |-> name, value |-> value,
     threshold |-> threshold, severity |-> severity]

\* CaptureRepository.get_captures_in_window: both bounds inclusive, newest
\* first, at most `limit` rows.
GetCapturesInWindow(application_name, start, end) ==
    LET rows == {c \in store : /\ c.application_name = application_name
                               /\ c.captured_at >= start
                               /\ c.captured_at <= end}
    IN {c \in rows :
          Cardinality({d \in rows : d.captured_at > c.captured_at}) < FetchLimit}

\* The sufficiency test with the boundary on the wrong side.
InsufficientAtBoundary(data) == Cardinality(data) <= driftConfig.min_samples_required

\* Lines 74 and 81: len(data) < self.config.min_samples_required
Insufficient(data) == Cardinality(data) < driftConfig.min_samples_required

\* DriftDetectionService(capture_repo, embedding_service, config)
NewDriftService(cfg) ==
    /\ driftPc = "idle"
    /\ driftConfig' = cfg
    /\ UNCHANGED <<store, driftPc, now, baseline_window, comparison_window,
                   baseline_data, comparison_data, metrics, driftOut,
                   embedCalls, outsideDrift>>

\* CaptureRepository.save: a capture reaches the capture source, also between
\* the two fetches of a detect_drift call (which reads the source no more
\* after its second fetch).
Save(c) ==
    /\ c \notin store
    /\ driftPc \in {"idle", "fetch_baseline", "fetch_comparison"}
    /\ store' = store \cup {c}
    /\ UNCHANGED <<driftConfig, driftPc, now, baseline_window, comparison_window,
                   baseline_data, comparison_data, metrics, driftOut,
                   embedCalls, outsideDrift>>

\* Lines 41-61: detect_drift("default", comparison_window, baseline_window)
\* when datetime.utcnow() is t (no capture is from the future), up to the
\* first fetch.
DetectDrift(t, cw, bw) ==
    /\ driftPc = "idle"
    /\ now' = t
    /\ comparison_window' =
          IF cw = NoWindow
          THEN DriftWindow(t - driftConfig.comparison_window_hours, t, "current")
          ELSE cw
    /\ baseline_window' =
          IF bw = NoWindow
          THEN DriftWindow(t - (driftConfig.baseline_window_hours
                                + driftConfig.comparison_window_hours),
                           t - driftConfig.comparison_window_hours, "baseline")
          ELSE bw
    /\ driftPc' = "fetch_baseline"
    /\ baseline_data' = {} /\ comparison_data' = {}
    /\ metrics' = << >> /\ driftOut' = NoDriftOut /\ embedCalls' = 0
    /\ UNCHANGED <<driftConfig, store, outsideDrift>>

\* Lines 63-67: the baseline fetch returns.
FetchBaseline ==
    /\ driftPc = "fetch_baseline"
    /\ baseline_data' = GetCapturesInWindow("default", baseline_window.start,
                                            baseline_window.end)
    /\ driftPc' = "fetch_comparison"
    /\ UNCHANGED <<driftConfig, store, now, baseline_window, comparison_window,
                   comparison_data, metrics, driftOut, embedCalls, outsideDrift>>

\* Lines 68-88: the comparison fetch returns and both counts are tested;
\* `return []` when either is insufficient.
FetchComparison ==
    /\ driftPc = "fetch_comparison"
    /\ LET data == GetCapturesInWindow("default", comparison_window.start,
                                       comparison_window.end)
       IN /\ comparison_data' = data
          /\ IF Insufficient(baseline_data) \/ Insufficient(data)
             THEN /\ driftPc' = "returned"
                  /\ driftOut' = [kind |-> "list", value |-> << >>, source |-> None]
             ELSE /\ driftPc' = "statistical"
                  /\ UNCHANGED driftOut
    /\ UNCHANGED <<driftConfig, store, now, baseline_window, comparison_window,
                   baseline_data, metrics, embedCalls, outsideDrift>>

\* The capture source fails during either fetch: detect_drift has no handler,
\* the exception leaves it.
FetchRaises ==
    /\ driftPc \in {"fetch_baseline", "fetch_comparison"}
    /\ driftPc' = "raised"
    /\ driftOut' = [kind |-> "error", value |-> << >>, source |-> "capture_source"]
    /\ UNCHANGED <<driftConfig, store, now, baseline_window, comparison_window,
                   baseline_data, comparison_data, metrics, embedCalls,
                   outsideDrift>>

\* Lines 89-94 and 119-168, then 172-178 up to the first embed_batch call.
\* _calculate_kl_divergence takes min() of both samples (line 299), which
\* raises ValueError on an empty one.
DetectStatistical ==
    /\ driftPc = "statistical"
    /\ IF baseline_data = {} \/ comparison_data = {}
       THEN /\ driftPc' = "raised"
            /\ driftOut' = [kind |-> "error", value |-> << >>, source |-> "engine"]
            /\ UNCHANGED metrics
       ELSE /\ \E kl \in MeasuredValues, js \in MeasuredValues, tkl \in MeasuredValues :
                 metrics' = metrics \o
                   << DriftMetric("statistical", "kl_divergence_response_length", kl,
                         driftConfig.kl_divergence_threshold,
                         DetermineSeverity(kl, driftConfig.kl_divergence_threshold)),
                      DriftMetric("statistical", "js_divergence_response_length", js,
                         driftConfig.js_divergence_threshold,
                         DetermineSeverity(js, driftConfig.js_divergence_threshold)),
                      DriftMetric("statistical", "kl_divergence_token_usage", tkl,
                         driftConfig.kl_divergence_threshold,
                         DetermineSeverity(tkl, driftConfig.kl_divergence_threshold)) >>
            /\ driftPc' = "embed_baseline"
            /\ UNCHANGED driftOut
    /\ UNCHANGED <<driftConfig, store, now, baseline_window, comparison_window,
                   baseline_data, comparison_data, embedCalls, outsideDrift>>

\* Line 178: embed_batch(baseline_texts) returns.
EmbedBaseline ==
    /\ driftPc = "embed_baseline"
    /\ embedCalls' = embedCalls + 1
    /\ driftPc' = "embed_comparison"
    /\ UNCHANGED <<driftConfig, store, now, baseline_window, comparison_window,
                   baseline_data, comparison_data, metrics, driftOut, outsideDrift>>

\* Lines 179-211 and 95-99: embed_batch(comparison_texts) returns and the
\* two semantic metrics are built.
EmbedComparison ==
    /\ driftPc = "embed_comparison"
    /\ embedCalls' = embedCalls + 1
    /\ \E cd \in MeasuredValues, pd \in MeasuredValues :
          metrics' = metrics \o
            << DriftMetric("semantic", "cosine_distance_centroid", cd,
                  driftConfig.cosine_distance_threshold,
                  DetermineSeverity(cd, driftConfig.cosine_distance_threshold)),
               DriftMetric("semantic", "pairwise_distance_change", pd,
                  driftConfig.cosine_distance_threshold,
                  DetermineSeverity(pd, driftConfig.cosine_distance_threshold)) >>
    /\ driftPc' = "behavioral"
    /\ UNCHANGED <<driftConfig, store, now, baseline_window, comparison_window,
                   baseline_data, comparison_data, driftOut, outsideDrift>>

\* The embedding capability fails in either embed_batch call: no handler in
\* _detect_semantic_drift or detect_drift, the exception leaves detect_drift.
EmbedRaises ==
    /\ driftPc \in {"embed_baseline", "embed_comparison"}
    /\ embedCalls' = embedCalls + 1
    /\ driftPc' = "raised"
    /\ driftOut' = [kind |-> "error", value |-> << >>, source |-> "embedding"]
    /\ UNCHANGED <<driftConfig, store, now, baseline_window, comparison_window,
                   baseline_data, comparison_data, metrics, outsideDrift>>

\* Lines 100-104 and 213-254.
DetectBehavioral ==
    /\ driftPc = "behavioral"
    /\ \E lc \in MeasuredValues, sc \in MeasuredValues :
          metrics' = metrics \o
            << DriftMetric("behavioral", "response_length_change", lc,
                  driftConfig.response_length_change_threshold,
                  DetermineSeverity(lc, driftConfig.response_length_change_threshold)),
               DriftMetric("behavioral", "sentence_count_change", sc,
                  driftConfig.response_length_change_threshold,
                  DetermineSeverity(sc, driftConfig.response_length_change_threshold)) >>
    /\ driftPc' = "performance"
    /\ UNCHANGED <<driftConfig, store, now, baseline_window, comparison_window,
                   baseline_data, comparison_data, driftOut, embedCalls,
                   outsideDrift>>

\* Lines 105-117 and 256-296: the performance metrics (severity from the
\* absolute change, value signed) and `return metrics`.
DetectPerformance ==
    /\ driftPc = "performance"
    /\ \E lat \in SignedValues, cost \in SignedValues :
          LET all == metrics \o
                << DriftMetric("performance", "latency_p95_change", lat,
                      driftConfig.latency_change_threshold,
                      DetermineSeverity(Abs(lat), driftConfig.latency_change_threshold)),
                   DriftMetric("performance", "cost_per_request_change", cost,
                      driftConfig.cost_change_threshold,
                      DetermineSeverity(Abs(cost), driftConfig.cost_change_threshold)) >>
          IN /\ metrics' = all
             /\ driftOut' = [kind |-> "list", value |-> all, source |-> None]
    /\ driftPc' = "returned"
    /\ UNCHANGED <<driftConfig, store, now, baseline_window, comparison_window,
                   baseline_data, comparison_data, embedCalls, outsideDrift>>

\* The caller has the outcome; the call's locals are gone.
DriftDone ==
    /\ driftPc \in {"returned", "raised"}
    /\ driftPc' = "idle"
    /\ now' = 0
    /\ baseline_window' = NoWindow /\ comparison_window' = NoWindow
    /\ baseline_data' = {} /\ comparison_data' = {}
    /\ metrics' = << >> /\ driftOut' = NoDriftOut /\ embedCalls' = 0
    /\ UNCHANGED <<driftConfig, store, outsideDrift>>

InitDrift ==
    /\ InitApplyVars /\ InitRegistryVars /\ InitCallerVars /\ InitEngineVars
    /\ InitDriftVars /\ InitSeverityVars /\ InitModelVars /\ InitPiiVars
    /\ InitFinVars /\ InitBufferVars /\ InitLimiterVars

NextDrift ==
    \/ \E cfg \in DriftDetectionConfigs : NewDriftService(cfg)
    \/ \E c \in Captures : Save(c)
    \/ \E cw \in GivenWindows, bw \in GivenWindows : DetectDrift(MaxTime, cw, bw)
    \/ FetchBaseline
    \/ FetchComparison
    \/ FetchRaises
    \/ DetectStatistical
    \/ EmbedBaseline
    \/ EmbedComparison
    \/ EmbedRaises
    \/ DetectBehavioral
    \/ DetectPerformance
    \/ DriftDone

SpecDrift == InitDrift /\ [][NextDrift]_vars

C13_ThreeOutcomes ==
    driftPc \in {"returned", "raised"}
    => \/ driftOut.kind = "list" /\ driftOut.value = << >>
       \/ /\ driftOut.kind = "list"
          /\ {driftOut.value[i].drift_type : i \in DOMAIN driftOut.value}
               = {"statistical", "semantic", "behavioral", "performance"}
       \/ driftOut.kind = "error"
            /\ driftOut.source \in {"capture_source", "embedding"}

\* C16: with both windows defaulted (and positive window lengths) the baseline
\* window immediately precedes the comparison window, which ends now, each
\* has its configured length, no timestamp is contained in both windows and
\* no capture is fetched into both sets.
C16_DefaultWindowsDisjoint ==
    (/\ driftPc # "idle"
     /\ baseline_window.label = "baseline" /\ comparison_window.label = "current"
     /\ driftConfig.baseline_window_hours > 0
     /\ driftConfig.comparison_window_hours > 0)
    => /\ baseline_window.start < baseline_window.end
       /\ baseline_window.end = comparison_window.start
       /\ comparison_window.start < comparison_window.end
       /\ comparison_window.end = now
       /\ baseline_window.end - baseline_window.start
            = driftConfig.baseline_window_hours
       /\ comparison_window.end - comparison_window.start
            = driftConfig.comparison_window_hours
       /\ \A t \in Times :
            ~ (Contains(baseline_window, t) /\ Contains(comparison_window, t))
       /\ baseline_data \cap comparison_data = {}

(***************************************************************************)
(* SpecSeverity: _determine_severity as a function of its two arguments,   *)
(* called again and again.                                                 *)
(***************************************************************************)

\* Thresholds (the configured defaults 0.1, 0.15, 0.3, 0.5) and values at,
\* below, between and above their bracket boundaries, in thousandths.
SeverityThresholds == {100, 150, 300, 500}
SeverityValues ==
    {0, 50, 100, 120, 150, 200, 225, 300, 450, 500, 600, 750, 900, 1000, 1500, 2000}

\* A caller has a measurement and a threshold.
Measure(value, threshold) ==
    /\ measured' = [value |-> value, threshold |-> threshold]
    /\ severityOut' = "unset"
    /\ UNCHANGED <<earlier, outsideSeverity>>

\* self._determine_severity(value, threshold)
Determine ==
    /\ severityOut' = DetermineSeverity(measured.value, measured.threshold)
    /\ UNCHANGED <<measured, earlier, outsideSeverity>>

\* An observer notes the call just made.
NoteSeverity ==
    /\ severityOut # "unset"
    /\ earlier' = [value |-> measured.value, threshold |-> measured.threshold,
                   severity |-> severityOut]
    /\ UNCHANGED <<measured, severityOut, outsideSeverity>>

InitSeverity ==
    /\ InitApplyVars /\ InitRegistryVars /\ InitCallerVars /\ InitEngineVars
    /\ InitDriftVars /\ InitSeverityVars /\ InitModelVars /\ InitPiiVars
    /\ InitFinVars /\ InitBufferVars /\ InitLimiterVars

NextSeverity ==
    \/ \E v \in SeverityValues, t \in SeverityThresholds : Measure(v, t)
    \/ Determine
    \/ NoteSeverity

SpecSeverity == InitSeverity /\ [][NextSeverity]_vars

\* C14: for a threshold t > 0 the severity of a value v is NONE if v < t,
\* LOW if t <= v < 1.5t, MEDIUM if 1.5t <= v < 2t, HIGH if 2t <= v < 3t and
\* CRITICAL if v >= 3t, so that a value exactly at a boundary is in the higher
\* bracket (0.15 with threshold 0.1 is MEDIUM).
C14_SeverityBrackets ==
    (severityOut # "unset" /\ measured.threshold > 0)
    => LET v == measured.value
           t == measured.threshold
       IN severityOut =
            IF v < t THEN "none"
            ELSE IF 2 * v < 3 * t THEN "low"
            ELSE IF v < 2 * t THEN "medium"
            ELSE IF v < 3 * t THEN "high"
            ELSE "critical"

\* The order NONE < LOW < MEDIUM < HIGH < CRITICAL.
SeverityRank(s) ==
    CASE s = "none" -> 0
      [] s = "low" -> 1
      [] s = "medium" -> 2
      [] s = "high" -> 3
      [] s = "critical" -> 4

\* C15: for a fixed threshold t > 0, severity does not decrease as the value
\* grows: of two calls with the same threshold, the one with the larger (or
\* equal) value has the higher (or equal) severity.
C15_SeverityMonotone ==
    (severityOut # "unset" /\ earlier.severity # "unset"
        /\ measured.threshold > 0 /\ earlier.threshold = measured.threshold)
    => /\ earlier.value <= measured.value
          => SeverityRank(earlier.severity) <= SeverityRank(severityOut)
       /\ measured.value <= earlier.value
          => SeverityRank(severityOut) <= SeverityRank(earlier.severity)

\* Two calls with threshold 0.3: 0.45 was MEDIUM, the larger 0.6 is HIGH.
C15_Witness ==
    /\ earlier = [value |-> 450, threshold |-> 300, severity |-> "medium"]
    /\ measured = [value |-> 600, threshold |-> 300]
    /\ severityOut = "high"

(***************************************************************************)
(* SpecModels: the value objects of domain/models are constructed and      *)
(* their properties read.  Numbers are thousandths (RateOne is 1.0).       *)
(***************************************************************************)
MaxMetrics == 2

\* ModelConfig.__post_init__ (capture.py 42-46): the message of the ValueError
\* raised, or None.
ModelConfigPostInit(args) ==
    IF ~ (0 <= args.temperature /\ args.temperature <= 2 * RateOne)
    THEN "Temperature must be between 0 and 2"
    ELSE IF ~ (0 <= args.top_p /\ args.top_p <= RateOne)
    THEN "top_p must be between 0 and 1"
    ELSE None

\* LLMRequest.__post_init__ (capture.py 74-76).
LLMRequestPostInit(args) ==
    IF args.prompt = "" /\ args.messages = << >>
    THEN "Either prompt or messages must be provided"
    ELSE None

\* ValidationEvidence.__post_init__ (validation.py 38-40); confidence_score
\* None is [given |-> FALSE].
ValidationEvidencePostInit(args) ==
    IF args.confidence_score.given
       /\ ~ (0 <= args.confidence_score.value
             /\ args.confidence_score.value <= RateOne)
    THEN "Confidence score must be between 0 and 1"
    ELSE None

\* The sampling-rate test with the lower bound admitted.
InvariantConfigPostInitAdmitsZero(args) ==
    IF ~ (0 <= args.sampling_rate /\ args.sampling_rate <= RateOne)
    THEN "Sampling rate must be between 0 and 1"
    ELSE None

\* InvariantConfig.__post_init__ (invariant.py 49-51).
InvariantConfigPostInit(args) ==
    IF ~ (0 < args.sampling_rate /\ args.sampling_rate <= RateOne)
    THEN "Sampling rate must be between 0 and 1"
    ELSE None

\* The dataclass-generated __init__ stores the arguments and runs
\* __post_init__ where the class has one.
PostInit(call) ==
    CASE call.cls = "ModelConfig" -> ModelConfigPostInit(call.args)
      [] call.cls = "LLMRequest" -> LLMRequestPostInit(call.args)
      [] call.cls = "ValidationEvidence" -> ValidationEvidencePostInit(call.args)
      [] call.cls = "InvariantConfig" -> InvariantConfigPostInit(call.args)
      [] OTHER -> None

\* ValidationResult.passed
Passed(r) == r.status = "passed"

\* requires_action without the status test.
RequiresActionAnyStatus(r) == r.severity \in {"critical", "high"}

\* ValidationResult.requires_action
RequiresAction(r) == r.status = "failed" /\ r.severity \in {"critical", "high"}

\* is_drifting with the threshold itself counted as drift.
IsDriftingAtThreshold(metric) == metric.value >= metric.threshold

\* DriftMetric.is_drifting
IsDrifting(metric) == metric.value > metric.threshold

\* DriftMetric.drift_ratio: infinity, or the quotient as an exact fraction
\* (the double quotient of two doubles is above 1.0 exactly when the fraction
\* is: division rounds correctly and 1.0 is a double).
DriftRatio(metric) ==
    IF metric.threshold = 0
    THEN IF metric.value > 0
         THEN [kind |-> "inf", num |-> 1, den |-> 0]
         ELSE [kind |-> "finite", num |-> 0, den |-> 1]
    ELSE [kind |-> "finite", num |-> metric.value, den |-> metric.threshold]

\* DriftAlert.drift_count
DriftCount(alert) ==
    Cardinality({i \in DOMAIN alert.drift_metrics : IsDrifting(alert.drift_metrics[i])})

MetricArgs == [value : {-100, 0, 100, 150}, threshold : {-100, 0, 100}]

ConstructorCalls ==
    [cls : {"ModelConfig"},
     args : [temperature : {-1, 0, 700, 2000, 2001}, top_p : {-1, 0, 1000, 1001}]]
    \cup [cls : {"LLMRequest"},
          args : [prompt : {"", "hi"}, messages : {<< >>, <<"m">>}]]
    \cup [cls : {"ValidationEvidence"},
          args : [confidence_score :
                    {[given |-> FALSE, value |-> 0]}
                    \cup [given : {TRUE}, value : {-1, 0, 850, 1000, 1001}]]]
    \cup [cls : {"InvariantConfig"},
          args : [sampling_rate : {-1, 0, 1, 500, 1000, 1001}]]
    \cup [cls : {"ValidationResult"},
          args : [status : {"passed", "failed", "skipped", "error"},
                  severity : {"critical", "high", "medium", "low", "info"}]]
    \cup [cls : {"DriftMetric"}, args : MetricArgs]
    \cup [cls : {"DriftAlert"},
          args : [drift_metrics :
                    UNION {[1..n -> MetricArgs] : n \in 0..MaxMetrics}]]

\* cls(**args)
Construct(call) ==
    /\ ctorCall' = call
    /\ built' = LET raised == PostInit(call)
                IN IF raised = None
                   THEN [outcome |-> "object", cls |-> call.cls, fields |-> call.args]
                   ELSE [outcome |-> "ValueError", message |-> raised]
    /\ props' = NoProps
    /\ UNCHANGED outsideModels

\* The properties of the object are read.
ReadProperties ==
    /\ built.outcome = "object"
    /\ built.cls \in {"ValidationResult", "DriftMetric", "DriftAlert"}
    /\ props' =
         CASE built.cls = "ValidationResult" ->
                [read |-> TRUE, passed |-> Passed(built.fields),
                 requires_action |-> RequiresAction(built.fields)]
           [] built.cls = "DriftMetric" ->
                [read |-> TRUE, is_drifting |-> IsDrifting(built.fields),
                 drift_ratio |-> DriftRatio(built.fields)]
           [] built.cls = "DriftAlert" ->
                [read |-> TRUE, drift_count |-> DriftCount(built.fields)]
    /\ UNCHANGED <<ctorCall, built, outsideModels>>

InitModels ==
    /\ InitApplyVars /\ InitRegistryVars /\ InitCallerVars /\ InitEngineVars
    /\ InitDriftVars /\ InitSeverityVars /\ InitModelVars /\ InitPiiVars
    /\ InitFinVars /\ InitBufferVars /\ InitLimiterVars

NextModels ==
    \/ \E call \in ConstructorCalls : Construct(call)
    \/ ReadProperties

SpecModels == InitModels /\ [][NextModels]_vars

\* C17: ValidationResult.passed is true iff status is PASSED, and
\* requires_action is true iff status is FAILED and severity is CRITICAL or
\* HIGH; a result with status ERROR or SKIPPED is neither, whatever its
\* severity.
C17_PassedAndRequiresAction ==
    (props.read /\ built.cls = "ValidationResult")
    => LET r == ctorCall.args
       IN /\ props.passed = (r.status = "passed")
          /\ props.requires_action
               = (r.status = "failed" /\ r.severity \in {"critical", "high"})
          /\ r.status \in {"error", "skipped"}
               => ~ props.passed /\ ~ props.requires_action

\* An ERROR result of CRITICAL severity: neither passed nor requires_action.
C17_Witness ==
    /\ props.read /\ built.cls = "ValidationResult"
    /\ built.fields = [status |-> "error", severity |-> "critical"]
    /\ ~ props.passed /\ ~ props.requires_action

\* C18: DriftMetric.is_drifting is true iff value > threshold; drift_ratio is
\* value/threshold when threshold is not 0, infinity when threshold is 0 and
\* value > 0, and 0 when threshold is 0 and value <= 0; so for a threshold
\* greater than 0, is_drifting holds iff drift_ratio > 1; and a DriftAlert's
\* drift_count is the number of its metrics with value > threshold.
C18_DriftingRatioAndCount ==
    /\ (props.read /\ built.cls = "DriftMetric")
       => LET v == ctorCall.args.value
              t == ctorCall.args.threshold
              ratio == props.drift_ratio
          IN /\ props.is_drifting = (v > t)
             /\ t # 0 => /\ ratio.kind = "finite" /\ ratio.den # 0
                         /\ ratio.num * t = v * ratio.den
             /\ (t = 0 /\ v > 0) => ratio.kind = "inf"
             /\ (t = 0 /\ v <= 0) => ratio.kind = "finite" /\ ratio.num = 0
             /\ t > 0 => (props.is_drifting = (ratio.num > ratio.den))
    /\ (props.read /\ built.cls = "DriftAlert")
       => LET ms == ctorCall.args.drift_metrics
          IN props.drift_count
               = Cardinality({i \in DOMAIN ms : ms[i].value > ms[i].threshold})

\* An alert of two metrics, one at its threshold and one above it, counts one.
C18_Witness ==
    /\ props.read /\ built.cls = "DriftAlert"
    /\ built.fields.drift_metrics = << [value |-> 100, threshold |-> 100],
                                       [value |-> 150, threshold |-> 100] >>
    /\ props.drift_count = 1

\* C19: a value object with an out-of-range field is not constructed (the
\* constructor raises ValueError), and one with every field in range is
\* constructed with the fields as given: ModelConfig wants temperature in
\* [0,2] and top_p in [0,1], LLMRequest a prompt or messages, ValidationEvidence
\* a confidence score in [0,1] (or none), InvariantConfig a sampling rate in
\* (0,1].
C19_OutOfRangeRejectedNeverClamped ==
    built.outcome # "none"
    => LET a == ctorCall.args
           inRange ==
             CASE ctorCall.cls = "ModelConfig" ->
                    /\ 0 <= a.temperature /\ a.temperature <= 2000
                    /\ 0 <= a.top_p /\ a.top_p <= 1000
               [] ctorCall.cls = "LLMRequest" ->
                    ~ (a.prompt = "" /\ a.messages = << >>)
               [] ctorCall.cls = "ValidationEvidence" ->
                    a.confidence_score.given
                      => /\ 0 <= a.confidence_score.value
                         /\ a.confidence_score.value <= 1000
               [] ctorCall.cls = "InvariantConfig" ->
                    0 < a.sampling_rate /\ a.sampling_rate <= 1000
               [] OTHER -> TRUE
       IN /\ inRange => /\ built.outcome = "object"
                        /\ built.cls = ctorCall.cls
                        /\ built.fields = a
          /\ ~ inRange => built.outcome = "ValueError"

\* InvariantConfig(sampling_rate=0) raises.
C19_Witness ==
    /\ ctorCall = [cls |-> "InvariantConfig", args |-> [sampling_rate |-> 0]]
    /\ built.outcome = "ValueError"

(***************************************************************************)
(* SpecPii: PIILeakageInvariant.validate.  The response text is a list of  *)
(* segments joined by single spaces; strings the code cuts and joins are   *)
(* sequences of characters.                                                *)
(***************************************************************************)
MaxSegments == 4

Segments ==
    {"hello", "123-45-6789", "a@b.co", "555-123-4567", "x+1 555-123-4567", "10.0.0.1"}

\* PATTERNS in dict order.
PiiTypes == <<"email", "phone", "ssn", "credit_card", "ip_address">>

\* re.findall(PATTERNS[pii_type], segment), as CPython returns it: the matched
\* strings, but for "phone", whose pattern has one group, the text of that
\* group (the optional country prefix), empty when the group took no part.
FindAllSegment(pii_type, segment) ==
    CASE pii_type = "email" /\ segment = "a@b.co" ->
           << <<"a", "@", "b", ".", "c", "o">> >>
      [] pii_type = "phone" /\ segment = "555-123-4567" ->
           << << >> >>
      [] pii_type = "phone" /\ segment = "x+1 555-123-4567" ->
           << <<"+", "1", " ">> >>
      [] pii_type = "ssn" /\ segment = "123-45-6789" ->
           << <<"1", "2", "3", "-", "4", "5", "-", "6", "7", "8", "9">> >>
      [] pii_type = "ip_address" /\ segment = "10.0.0.1" ->
           << <<"1", "0", ".", "0", ".", "0", ".", "1">> >>
      [] OTHER -> << >>

\* The strings PATTERNS[pii_type] matches in the segment (m.group(0) of
\* re.finditer).
RawMatchesSegment(pii_type, segment) ==
    CASE pii_type = "email" /\ segment = "a@b.co" ->
           << <<"a", "@", "b", ".", "c", "o">> >>
      [] pii_type = "phone" /\ segment = "555-123-4567" ->
           << <<"5", "5", "5", "-", "1", "2", "3", "-", "4", "5", "6", "7">> >>
      [] pii_type = "phone" /\ segment = "x+1 555-123-4567" ->
           << <<"+", "1", " ", "5", "5", "5", "-", "1", "2", "3", "-", "4", "5", "6", "7">> >>
      [] pii_type = "ssn" /\ segment = "123-45-6789" ->
           << <<"1", "2", "3", "-", "4", "5", "-", "6", "7", "8", "9">> >>
      [] pii_type = "ip_address" /\ segment = "10.0.0.1" ->
           << <<"1", "0", ".", "0", ".", "0", ".", "1">> >>
      [] OTHER -> << >>

\* The concatenation of a sequence of sequences.
RECURSIVE ConcatAll(_)
ConcatAll(seqs) ==
    IF seqs = << >> THEN << >> ELSE Head(seqs) \o ConcatAll(Tail(seqs))

\* re.findall(pattern, text) on the whole text (line 44): no pattern matches
\* across the space between two of the segments.
FindAll(pii_type, text) ==
    ConcatAll([i \in DOMAIN text |-> FindAllSegment(pii_type, text[i])])

\* _redact that returns its argument.
RedactKeepsAll(text) == text

\* Lines 74-77.
Redact(text) ==
    IF Len(text) <= 4
    THEN <<"*", "*", "*">>
    ELSE SubSeq(text, 1, 2) \o <<"*", "*", "*">> \o SubSeq(text, Len(text) - 1, Len(text))

\* str(n) for n >= 0
RECURSIVE Decimal(_)
Decimal(n) ==
    LET digit == <<"0", "1", "2", "3", "4", "5", "6", "7", "8", "9">>[(n % 10) + 1]
    IN IF n < 10 THEN <<digit>> ELSE Decimal(n \div 10) \o <<digit>>

\* ", ".join(items)
RECURSIVE Join(_)
Join(items) ==
    IF items = << >> THEN << >>
    ELSE IF Len(items) = 1 THEN items[1]
    ELSE items[1] \o <<",", " ">> \o Join(Tail(items))

\* Lines 46-54: the evidence item for one pii_type with its matches.
Evidence(pii_type, matches) ==
    LET redacted == [i \in DOMAIN matches |-> Redact(matches[i])]
        shown == SubSeq(redacted, 1, IF Len(redacted) < 3 THEN Len(redacted) ELSE 3)
    IN [pii_type |-> pii_type,
        count |-> Len(matches),
        extracted_text |->
            Decimal(Len(matches))
            \o <<" ", "i", "n", "s", "t", "a", "n", "c", "e", "(", "s", ")", ":", " ">>
            \o Join(shown)]

\* Lines 41-54: the list `detected`.
Detected(text) ==
    ConcatAll([k \in DOMAIN PiiTypes |->
                 LET matches == FindAll(PiiTypes[k], text)
                 IN IF matches # << >>
                    THEN << Evidence(PiiTypes[k], matches) >>
                    ELSE << >>])

\* The response text of the capture under validation grows by a segment.
Respond(segment) ==
    /\ Len(response_text) < MaxSegments
    /\ response_text' = Append(response_text, segment)
    /\ piiResult' = NoPiiResult
    /\ UNCHANGED outsidePii

\* Another capture, its response text empty so far.
NextCapture ==
    /\ response_text' = << >>
    /\ piiResult' = NoPiiResult
    /\ UNCHANGED outsidePii

\* Lines 37-72: PIILeakageInvariant.validate(context)
Validate ==
    /\ piiResult' = LET detected == Detected(response_text)
                    IN IF detected # << >>
                       THEN [status |-> "failed", evidence |-> detected]
                       ELSE [status |-> "passed", evidence |-> << >>]
    /\ UNCHANGED <<response_text, outsidePii>>

InitPii ==
    /\ InitApplyVars /\ InitRegistryVars /\ InitCallerVars /\ InitEngineVars
    /\ InitDriftVars /\ InitSeverityVars /\ InitModelVars /\ InitPiiVars
    /\ InitFinVars /\ InitBufferVars /\ InitLimiterVars

NextPii ==
    \/ \E segment \in Segments : Respond(segment)
    \/ NextCapture
    \/ Validate

SpecPii == InitPii /\ [][NextPii]_vars

\* C20: PIILeakageInvariant.validate returns FAILED iff some PII pattern
\* matches the response text (PASSED otherwise), its evidence has exactly one
\* item per matched PII type, and no item's extracted text contains a string
\* that a pattern matched in the text: matches are shown redacted.
C20_PiiFailedAndRedacted ==
    piiResult.status # "unset"
    => LET Raw(t) == ConcatAll([i \in DOMAIN response_text |->
                                   RawMatchesSegment(t, response_text[i])])
           types == {PiiTypes[k] : k \in DOMAIN PiiTypes}
           matched == {t \in types : Raw(t) # << >>}
           ev == piiResult.evidence
           Within(needle, hay) ==
               \E i \in 0..(Len(hay) - Len(needle)) :
                   SubSeq(hay, i + 1, i + Len(needle)) = needle
       IN /\ piiResult.status = (IF matched # {} THEN "failed" ELSE "passed")
          /\ Len(ev) = Cardinality(matched)
          /\ {ev[i].pii_type : i \in DOMAIN ev} = matched
          /\ \A i \in DOMAIN ev : \A t \in matched : \A j \in DOMAIN Raw(t) :
                ~ Within(Raw(t)[j], ev[i].extracted_text)

\* The response "123-45-6789": FAILED, with the one evidence item
\* "1 instance(s): 12***89".
C20_Witness ==
    /\ response_text = <<"123-45-6789">>
    /\ piiResult.status = "failed"
    /\ Len(piiResult.evidence) = 1
    /\ piiResult.evidence[1].pii_type = "ssn"
    /\ piiResult.evidence[1].extracted_text
         = <<"1", " ", "i", "n", "s", "t", "a", "n", "c", "e", "(", "s", ")", ":", " ",
             "1", "2", "*", "*", "*", "8", "9">>

(***************************************************************************)
(* SpecFinancial: FinancialWarningsInvariant.validate on response texts    *)
(* made of space-separated segments.                                       *)
(***************************************************************************)
FINANCIAL_KEYWORDS ==
    {"invest", "stock", "trading", "portfolio", "return", "profit", "dividend",
     "cryptocurrency", "crypto", "bitcoin", "market", "financial advice", "buy",
     "sell"}

\* WARNING_PATTERNS, each as the literal parts its `.*?` separate.
WARNING_PATTERNS ==
    << <<"not financial advice">>,
       <<"consult", "financial advisor">>,
       <<"past performance", "not", "guarantee">>,
       <<"risk", "loss">>,
       <<"do your own research">>,
       <<"DYOR">> >>

FinSegments ==
    {"hello", "Invest in this stock", "for guaranteed profit",
     "Not Financial Advice", "risk", "of loss", "Buy bitcoin", "DYOR"}

\* str.lower() of a segment (line 59).
Lower(segment) ==
    CASE segment = "Invest in this stock" -> "invest in this stock"
      [] segment = "Not Financial Advice" -> "not financial advice"
      [] segment = "Buy bitcoin" -> "buy bitcoin"
      [] segment = "DYOR" -> "dyor"
      [] OTHER -> segment

\* The keywords and pattern parts that are substrings of a lowered segment
\* (`kw in t`, and what a literal part of a pattern matches).
SubstringsOf(segment) ==
    CASE segment = "invest in this stock" -> {"invest", "stock"}
      [] segment = "for guaranteed profit" -> {"profit", "guarantee"}
      [] segment = "not financial advice" ->
           {"financial advice", "not financial advice", "not"}
      [] segment = "risk" -> {"risk"}
      [] segment = "of loss" -> {"loss"}
      [] segment = "buy bitcoin" -> {"bitcoin", "buy"}
      [] segment = "dyor" -> {"dyor"}
      [] OTHER -> {}

\* re.search(pattern, t) is not None, t the segments joined by spaces: the
\* parts are found in order, `.*?` taking whatever lies between (the text has
\* no newline).  No segment holds two parts of one pattern and no part
\* straddles a space between segments, so the parts lie in later and later
\* segments.
Search(parts, t) ==
    \E at \in [DOMAIN parts -> DOMAIN t] :
        /\ \A k \in DOMAIN parts : parts[k] \in SubstringsOf(t[at[k]])
        /\ \A j, k \in DOMAIN parts : j < k => at[j] < at[k]

\* The response text of the capture under validation grows by a segment.
RespondFinancial(segment) ==
    /\ Len(finText) < MaxSegments
    /\ finText' = Append(finText, segment)
    /\ finResult' = NoPiiResult
    /\ UNCHANGED outsideFinancial

\* Another capture, its response text empty so far.
NextFinancialCapture ==
    /\ finText' = << >>
    /\ finResult' = NoPiiResult
    /\ UNCHANGED outsideFinancial

\* Lines 55-99: FinancialWarningsInvariant.validate(context)
ValidateFinancial ==
    /\ finResult' =
         LET t == [i \in DOMAIN finText |-> Lower(finText[i])]
             fin_keyword_count ==
                 Cardinality({kw \in FINANCIAL_KEYWORDS :
                                \E i \in DOMAIN t : kw \in SubstringsOf(t[i])})
             has_warning ==
                 \E k \in DOMAIN WARNING_PATTERNS : Search(WARNING_PATTERNS[k], t)
         IN IF fin_keyword_count = 0
            THEN [status |-> "passed", evidence |-> << >>]
            ELSE IF ~ has_warning
            THEN [status |-> "failed",
                  evidence |-> << [financial_keyword_count |-> fin_keyword_count] >>]
            ELSE [status |-> "passed", evidence |-> << >>]
    /\ UNCHANGED <<finText, outsideFinancial>>

InitFinancial ==
    /\ InitApplyVars /\ InitRegistryVars /\ InitCallerVars /\ InitEngineVars
    /\ InitDriftVars /\ InitSeverityVars /\ InitModelVars /\ InitPiiVars
    /\ InitFinVars /\ InitBufferVars /\ InitLimiterVars

NextFinancial ==
    \/ \E segment \in FinSegments : RespondFinancial(segment)
    \/ NextFinancialCapture
    \/ ValidateFinancial

SpecFinancial == InitFinancial /\ [][NextFinancial]_vars

\* C21: the Financial Warnings invariant returns FAILED with at least one
\* evidence item iff the response text contains a financial keyword and
\* matches no warning-phrase pattern, and PASSED with no evidence when no
\* keyword is present or a warning phrase is present.  Keywords and phrases
\* are taken without regard to letter case, which is how validate looks for
\* the keywords.
C21_FailedIffKeywordAndNoWarning ==
    finResult.status # "unset"
    => LET t == [i \in DOMAIN finText |-> Lower(finText[i])]
           phrases == [k \in DOMAIN WARNING_PATTERNS |->
                          IF WARNING_PATTERNS[k] = <<"DYOR">>
                          THEN <<"dyor">> ELSE WARNING_PATTERNS[k]]
           keyword == \E i \in DOMAIN t : SubstringsOf(t[i]) \cap FINANCIAL_KEYWORDS # {}
           warning == \E k \in DOMAIN phrases : Search(phrases[k], t)
       IN /\ (finResult.status = "failed" /\ Len(finResult.evidence) >= 1)
             <=> (keyword /\ ~ warning)
          /\ (~ keyword \/ warning)
             => (finResult.status = "passed" /\ finResult.evidence = << >>)

(***************************************************************************)
(* SpecFrame: one caller of the registry's methods and one                 *)
(* validate_capture call share the event loop and the registry.            *)
(***************************************************************************)
\* The registry calls made beside the validate_capture call: the methods other
\* than validate_capture's own selection, with an id that is registered and
\* one that is not.
FrameOps ==
    { o \in RegistryOps :
        /\ o.name # "select"
        /\ o.name = "register" => o.arg = "fin"
        /\ o.name \in {"unregister", "get"}
             => o.arg \in {"safety.pii_leakage", "unknown.id"}
        /\ o.name = "get_by_category" => o.arg = "safety" }

InitFrame ==
    /\ InitApplyVars /\ InitCallerVars /\ InitEngineVars /\ InitDriftVars
    /\ InitSeverityVars /\ InitModelVars /\ InitPiiVars
    /\ InitFinVars /\ InitBufferVars /\ InitLimiterVars
    /\ registry = << Registered("pii"), Registered("tpl") >>

\* The synchronous part of validate_capture (lines 36-61) runs only when no
\* registry method is on the loop; the tasks run between the awaits.
NextFrame ==
    \/ \E o \in FrameOps : Call("t1", o)
    \/ RegisterCheck("t1")
    \/ RegisterSet("t1")
    \/ UnregisterCheck("t1")
    \/ UnregisterDel("t1")
    \/ Get("t1")
    \/ Iterate("t1")
    \/ Return("t1")
    \/ \E req \in EngineRequests, ids \in {NoIds} :
          loopOwner = None /\ ValidateCapture("v1", req, ids)
    \/ \E i \in Positions : loopOwner = None /\ Acquire("v1", i)
    \/ \E i \in Positions, st \in Statuses :
          loopOwner = None /\ ValidateReturns("v1", i, st)
    \/ \E i \in Positions : loopOwner = None /\ ValidateTimesOut("v1", i)
    \/ \E i \in Positions : loopOwner = None /\ ValidateRaises("v1", i)
    \/ \E i \in Positions : loopOwner = None /\ Retry("v1", i)
    \/ loopOwner = None /\ GatherDone("v1")

SpecFrame == InitFrame /\ [][NextFrame]_vars

\* C22: unregister of an id that is not registered, every registry read
\* (get, get_by_category, get_all, get_enabled) and every step of a
\* validate_capture call leave the registry's mapping and the call's capture
\* event as they were.
C22_ReadsAndValidationChangeNothing ==
    [][ /\ \A p \in Callers :
              ( /\ pc[p] \notin {"idle", "done"}
                /\ pc'[p] # pc[p] \/ cursor'[p] # cursor[p] \/ out'[p] # out[p]
                /\ \/ op[p].name \in {"get", "get_by_category", "get_all", "get_enabled"}
                   \/ op[p].name = "unregister" /\ op[p].arg \notin Keys(registry) )
              => /\ registry' = registry
                 /\ callInput' = callInput
        /\ engineVars' # engineVars
              => /\ registry' = registry
                 /\ \A c \in Calls : callPc[c] # "idle" => callInput'[c] = callInput[c]
      ]_vars

\* An unregister of an absent id has returned and the validate_capture call
\* has returned its result; both found and left the registry of two.
C22_Witness ==
    /\ pc["t1"] = "done" /\ op["t1"].name = "unregister"
    /\ op["t1"].arg = "unknown.id" /\ out["t1"].raised = None
    /\ callPc["v1"] = "returned" /\ Len(results["v1"]) = 1
    /\ registry = << Registered("pii"), Registered("tpl") >>

\* C23: after failed attempt k (from 0) with retries remaining the task waits
\* 100ms * 2^k before attempt k+1; from its first attempt to its final result
\* it keeps its semaphore slot, through every backoff wait; and no backoff
\* wait follows the final attempt.
C23_BackoffDoublesHoldingSlot ==
    [][ \A c \in Calls : \A i \in DOMAIN tasks[c] :
          i \in DOMAIN tasks'[c] =>
          LET t == tasks[c][i]
              u == tasks'[c][i]
              retries == IF InvConfig(t.inv).retry_on_error
                         THEN InvConfig(t.inv).max_retries ELSE 0
          IN /\ (t.pc = "running" /\ u.pc = "backoff")
                => /\ u.sleep_ms = 100 * (2 ^ t.attempt)
                   /\ t.attempt < retries
                   /\ u.attempt = t.attempt
                   /\ semaphore' = semaphore
             /\ (t.pc = "backoff" /\ u.pc = "running")
                => /\ u.attempt = t.attempt + 1
                   /\ semaphore' = semaphore
             /\ (t.pc = "running" /\ u.pc \in {"returned", "raised"}
                 /\ (u.pc = "raised" \/ u.result.status = "error"))
                => t.attempt = retries
             /\ (t.pc \in {"running", "backoff"} /\ ~ t.cancelling)
                => u.pc \in {"running", "backoff", "returned", "raised"}
             /\ (t.pc \in {"returned", "raised"}) => u = t
             /\ (t.pc = "waiting" /\ u.pc # "waiting" /\ u.pc # "cancelled")
                => u.pc = "running" /\ u.attempt = 0 /\ semaphore' = semaphore - 1
      ]_vars

\* A task asleep for 200 ms after its second failed attempt, inside its slot.
C23_Witness ==
    /\ Len(tasks["v1"]) >= 1
    /\ tasks["v1"][1].pc = "backoff"
    /\ tasks["v1"][1].attempt = 1
    /\ tasks["v1"][1].sleep_ms = 200
    /\ semaphore < MaxParallel

\* C24: every metric detect_drift returns carries the severity the bracket
\* rule gives for the metric's own stored value and threshold (NONE below the
\* threshold, LOW below 1.5 times it, MEDIUM below twice, HIGH below three
\* times, CRITICAL from there); so a returned metric whose value is below its
\* threshold has severity NONE, and one of severity HIGH or CRITICAL has
\* is_drifting true.
C24_SeverityFromStoredValue ==
    (driftPc = "returned" /\ driftOut.kind = "list")
    => \A i \in DOMAIN driftOut.value :
          LET m == driftOut.value[i]
          IN /\ m.severity =
                  (IF m.value < m.threshold THEN "none"
                   ELSE IF 2 * m.value < 3 * m.threshold THEN "low"
                   ELSE IF m.value < 2 * m.threshold THEN "medium"
                   ELSE IF m.value < 3 * m.threshold THEN "high"
                   ELSE "critical")
             /\ m.value < m.threshold => m.severity = "none"
             /\ m.severity \in {"high", "critical"} => IsDrifting(m)

\* C25: when both windows hold enough samples the statistical family of the
\* result has four metrics: a KL and a Jensen-Shannon divergence for the
\* response-length distribution and a KL and a Jensen-Shannon divergence for
\* the token-count distribution.
C25_FourStatisticalMetrics ==
    (driftPc = "returned" /\ driftOut.kind = "list" /\ driftOut.value # << >>)
    => LET stat == {i \in DOMAIN driftOut.value :
                       driftOut.value[i].drift_type = "statistical"}
       IN /\ Cardinality(stat) = 4
          /\ {driftOut.value[i].metric_name : i \in stat}
               = {"kl_divergence_response_length", "js_divergence_response_length",
                  "kl_divergence_token_usage", "js_divergence_token_usage"}

\* C26: when validate_capture is passed a list of invariant ids, the empty
\* list too, every returned result is of one of the passed ids, each passed
\* id yields at most one result, and a disabled invariant is never executed,
\* even with its id passed.
C26_ResultsWithinPassedIds ==
    \A c \in Calls :
        /\ (callPc[c] = "returned" /\ callInput[c].ids.given)
           => LET ids == callInput[c].ids.list
              IN /\ \A i \in DOMAIN results[c] :
                       results[c][i].invariant_id \in Range(ids)
                 /\ \A k \in Range(ids) :
                       Cardinality({i \in DOMAIN results[c] :
                                      results[c][i].invariant_id = k}) <= 1
        /\ \A i \in DOMAIN tasks[c] : InvConfig(tasks[c][i].inv).enabled

(***************************************************************************)
(* SpecRetries: one validate_capture call over invariants of several retry *)
(* configurations, one of them with max_retries below 0 (InvariantConfig   *)
(* validates the sampling rate only).                                      *)
(***************************************************************************)
RetryRegistries ==
    { << Registered("neg"), Registered("pii") >>,
      << Registered("pii2"), Registered("fin") >> }

InitRetries ==
    /\ InitApplyVars /\ InitCallerVars /\ InitEngineVars /\ InitDriftVars
    /\ InitSeverityVars /\ InitModelVars /\ InitPiiVars
    /\ InitFinVars /\ InitBufferVars /\ InitLimiterVars
    /\ registry \in RetryRegistries

NextRetries ==
    \/ \E req \in EngineRequests : ValidateCapture("v1", req, NoIds)
    \/ \E i \in Positions : Acquire("v1", i)
    \/ \E i \in Positions, st \in Statuses : ValidateReturns("v1", i, st)
    \/ \E i \in Positions : ValidateTimesOut("v1", i)
    \/ \E i \in Positions : ValidateRaises("v1", i)
    \/ \E i \in Positions : Retry("v1", i)
    \/ GatherDone("v1")

SpecRetries == InitRetries /\ [][NextRetries]_vars

\* C27: for every applicable invariant and every retry configuration,
\* validate is attempted at least once and at most max_retries + 1 times,
\* exactly once when retry_on_error is false; the attempts stop at the first
\* one that returns a result, which is the result placed in the output, and
\* every element of the output is a ValidationResult.
C27_AttemptsWithinRetryBudget ==
    \A c \in Calls :
        /\ \A i \in DOMAIN tasks[c] :
              LET t == tasks[c][i]
                  cfg == InvConfig(t.inv)
              IN /\ t.pc \in {"returned", "raised"}
                    => /\ t.attempts >= 1
                       /\ t.attempts = t.attempt + 1
                       /\ ~ cfg.retry_on_error => t.attempts = 1
                 /\ cfg.retry_on_error => t.attempts <= cfg.max_retries + 1
                 /\ (callPc[c] = "returned" /\ t.pc = "returned")
                    => results[c][i] = t.result
        /\ callPc[c] # "raised"
        /\ callPc[c] = "returned"
           => \A i \in DOMAIN results[c] : results[c][i] # NoResult

(***************************************************************************)
(* SpecLive: two validate_capture calls on one engine, never cancelled,    *)
(* under the scheduling asyncio gives: the semaphore wakes its waiters in  *)
(* turn, a sleep ends, a finished gather resumes its caller, and every     *)
(* validate attempt returns, raises or is cut off by wait_for.             *)
(***************************************************************************)
LiveRegistries ==
    { << Registered("fin"), Registered("pii2"), Registered("tpl") >>,
      << Registered("neg"), Registered("pii2") >> }

InitLive ==
    /\ InitApplyVars /\ InitCallerVars /\ InitEngineVars /\ InitDriftVars
    /\ InitSeverityVars /\ InitModelVars /\ InitPiiVars
    /\ InitFinVars /\ InitBufferVars /\ InitLimiterVars
    /\ registry \in LiveRegistries

NextLive ==
    \/ \E c \in Calls, req \in EngineRequests : ValidateCapture(c, req, NoIds)
    \/ \E c \in Calls, i \in Positions : Acquire(c, i)
    \/ \E c \in Calls, i \in Positions, st \in Statuses : ValidateReturns(c, i, st)
    \/ \E c \in Calls, i \in Positions : ValidateTimesOut(c, i)
    \/ \E c \in Calls, i \in Positions : ValidateRaises(c, i)
    \/ \E c \in Calls, i \in Positions : Retry(c, i)
    \/ \E c \in Calls : GatherDone(c)

FairScheduling ==
    \A c \in Calls :
        /\ WF_vars(GatherDone(c))
        /\ \A i \in Positions :
              /\ SF_vars(Acquire(c, i))
              /\ WF_vars(\/ \E st \in Statuses : ValidateReturns(c, i, st)
                         \/ ValidateTimesOut(c, i)
                         \/ ValidateRaises(c, i))
              /\ WF_vars(Retry(c, i))

SpecLive == InitLive /\ [][NextLive]_vars /\ FairScheduling

\* C28: with max_parallel at least 1 and every validate attempt returning,
\* raising or being cut off by its timeout, every validate_capture call
\* eventually returns under fair scheduling: every task waiting at the gate
\* eventually gets a slot, every task finishes, and concurrent calls on one
\* engine do not deadlock.
C28_EveryCallReturns ==
    \A c \in Calls :
        /\ (callPc[c] = "gathering") ~> (callPc[c] = "returned")
        /\ \A i \in Positions :
              (i \in DOMAIN tasks[c] /\ tasks[c][i].pc = "waiting")
              ~> (i \in DOMAIN tasks[c] /\ tasks[c][i].pc \in {"returned", "raised"})

\* ---------------------------------------------------------------------------
\* SpecBuffer: the SDK's CaptureBuffer (sdk/python/llm_reliability_sdk/
\* buffer.py).  Every method body runs under `async with self._lock`; the only
\* await inside the lock is the transport's send, so one action is the code
\* between two suspension points.  asyncio.Lock hands the lock to its waiters
\* in the order they arrived, and a newcomer takes it at once only when it is
\* free and nobody waits.
\* ---------------------------------------------------------------------------
MaxEvents == 3
MaxSize == 2

\* SDKConfig.buffer_max_size is an int with no validator.
MaxSizes == 0..MaxSize

\* The body of `async with self._lock` up to its first await or its end:
\* add appends the event and flushes when the buffer reached max_size; flush
\* and the periodic flusher always flush.  _flush_locked returns at once on an
\* empty buffer, otherwise it takes the whole buffer as the batch, leaves a
\* new empty list behind and awaits the transport, still holding the lock.
\* pending' is the event of the add call that runs the body.
\* A variant that hands the batch over and leaves the events in the buffer.
RunLockedKeepsBuffer(p) ==
    LET buf == IF p \in Adders THEN Append(buffer, pending'[p]) ELSE buffer
        flushes == p \in Adders => Len(buf) >= max_size
    IN  /\ added' = IF p \in Adders THEN Append(added, pending'[p]) ELSE added
        /\ IF flushes /\ buf # << >>
           THEN /\ buffer' = buf
                /\ sent' = Append(sent, [events |-> buf, outcome |-> "sending"])
                /\ lockHolder' = p
                /\ bufPc' = [bufPc EXCEPT ![p] = "sending"]
           ELSE /\ buffer' = buf
                /\ lockHolder' = None
                /\ bufPc' = [bufPc EXCEPT ![p] = Rest(p)]
                /\ UNCHANGED sent

RunLocked(p) ==
    LET buf == IF p \in Adders THEN Append(buffer, pending'[p]) ELSE buffer
        flushes == p \in Adders => Len(buf) >= max_size
    IN  /\ added' = IF p \in Adders THEN Append(added, pending'[p]) ELSE added
        /\ IF flushes /\ buf # << >>
           THEN /\ buffer' = << >>
                /\ sent' = Append(sent, [events |-> buf, outcome |-> "sending"])
                /\ lockHolder' = p
                /\ bufPc' = [bufPc EXCEPT ![p] = "sending"]
           ELSE /\ buffer' = buf
                /\ lockHolder' = None
                /\ bufPc' = [bufPc EXCEPT ![p] = Rest(p)]
                /\ UNCHANGED sent

\* Lock.acquire: taken without suspending when the lock is free and nobody
\* waits, otherwise the task joins the waiters.
Acquires == lockHolder = None /\ lockWaiters = << >>

EnterLock(p) ==
    IF Acquires
    THEN RunLocked(p) /\ UNCHANGED lockWaiters
    ELSE /\ lockWaiters' = Append(lockWaiters, p)
         /\ bufPc' = [bufPc EXCEPT ![p] = "waiting"]
         /\ UNCHANGED <<buffer, lockHolder, sent, added>>

\* await buffer.add(event)
Add(p) ==
    /\ p \in Adders
    /\ bufPc[p] = "idle"
    /\ nextEvent <= MaxEvents
    /\ pending' = [pending EXCEPT ![p] = nextEvent]
    /\ nextEvent' = nextEvent + 1
    /\ EnterLock(p)
    /\ UNCHANGED <<max_size, outsideBuffer>>

\* await buffer.flush()
Flush(p) ==
    /\ p = "fl"
    /\ bufPc[p] = "idle"
    /\ UNCHANGED <<max_size, pending, nextEvent, outsideBuffer>>
    /\ EnterLock(p)

\* start_flushing: asyncio.sleep(flush_interval) is over.
Tick(p) ==
    /\ p = "bg"
    /\ bufPc[p] = "sleeping"
    /\ UNCHANGED <<max_size, pending, nextEvent, outsideBuffer>>
    /\ EnterLock(p)

\* The lock was released and the first waiter runs.
Wake(p) ==
    /\ lockHolder = None
    /\ lockWaiters # << >>
    /\ Head(lockWaiters) = p
    /\ lockWaiters' = Tail(lockWaiters)
    /\ UNCHANGED <<max_size, pending, nextEvent, outsideBuffer>>
    /\ RunLocked(p)

\* The send is over: the transport delivered the batch, raised an Exception
\* that _flush_locked swallows, or the task was cancelled inside the send.
Settle(p, outcome) ==
    /\ bufPc[p] = "sending"
    /\ lockHolder = p
    /\ sent' = [sent EXCEPT ![Len(sent)].outcome = outcome]
    /\ lockHolder' = None
    /\ UNCHANGED <<max_size, buffer, lockWaiters, pending, added, nextEvent,
                   outsideBuffer>>

SendReturns(p) ==
    /\ Settle(p, "delivered")
    /\ bufPc' = [bufPc EXCEPT ![p] = Rest(p)]

SendRaises(p) ==
    /\ Settle(p, "dropped")
    /\ bufPc' = [bufPc EXCEPT ![p] = Rest(p)]

\* task.cancel() reaches a task inside the send: CancelledError is no
\* Exception, leaves _flush_locked and the `async with`, which releases the
\* lock; start_flushing catches it and returns.
CancelSending(p) ==
    /\ Settle(p, "dropped")
    /\ bufPc' = [bufPc EXCEPT ![p] = IF p = "bg" THEN "stopped" ELSE "idle"]

\* task.cancel() reaches a task waiting for the lock: it leaves the waiters
\* and its body never runs.
CancelWaiting(p) ==
    /\ bufPc[p] = "waiting"
    /\ lockWaiters' = SelectSeq(lockWaiters, LAMBDA q : q # p)
    /\ bufPc' = [bufPc EXCEPT ![p] = IF p = "bg" THEN "stopped" ELSE "idle"]
    /\ UNCHANGED <<max_size, buffer, lockHolder, pending, sent, added,
                   nextEvent, outsideBuffer>>

\* LLMReliabilityClient.stop cancels the periodic flusher in its sleep.
CancelSleeping(p) ==
    /\ p = "bg"
    /\ bufPc[p] = "sleeping"
    /\ bufPc' = [bufPc EXCEPT ![p] = "stopped"]
    /\ UNCHANGED <<max_size, buffer, lockHolder, lockWaiters, pending, sent,
                   added, nextEvent, outsideBuffer>>

InitBuffer ==
    /\ InitApplyVars /\ InitRegistryVars /\ InitCallerVars /\ InitEngineVars
    /\ InitDriftVars /\ InitSeverityVars /\ InitModelVars /\ InitPiiVars
    /\ InitFinVars /\ InitLimiterVars
    /\ max_size \in MaxSizes
    /\ buffer = << >>
    /\ lockHolder = None
    /\ lockWaiters = << >>
    /\ bufPc = [p \in BufferTasks |-> Rest(p)]
    /\ pending = [p \in BufferTasks |-> 0]
    /\ sent = << >>
    /\ added = << >>
    /\ nextEvent = 1

NextBuffer ==
    \E p \in BufferTasks :
        \/ Add(p)
        \/ Flush(p)
        \/ Tick(p)
        \/ Wake(p)
        \/ SendReturns(p)
        \/ SendRaises(p)
        \/ CancelSending(p)
        \/ CancelWaiting(p)
        \/ CancelSleeping(p)

SpecBuffer == InitBuffer /\ [][NextBuffer]_vars

\* The events of all batches handed to the transport, in the order handed over.
Handed == ConcatAll([i \in DOMAIN sent |-> sent[i].events])

\* C29: under any interleaving of add, flush and the periodic flusher, every
\* added event is in exactly one place, the buffer or exactly one batch handed
\* to the transport (delivered or dropped), no event is handed over twice,
\* events leave in the order they were added, and whenever no operation holds
\* the lock the buffer holds fewer than max_size events.
C29_OnePlaceInOrderBelowMaxSize ==
    /\ Handed \o buffer = added
    /\ \A i, j \in DOMAIN added : i # j => added[i] # added[j]
    /\ lockHolder = None => Len(buffer) < max_size

\* C29 as it holds: the same, and with max_size of 0 or less the buffer is
\* empty whenever no operation holds the lock.
C29_OnePlaceInOrderBelowMaxSizeOrEmpty ==
    /\ Handed \o buffer = added
    /\ \A i, j \in DOMAIN added : i # j => added[i] # added[j]
    /\ lockHolder = None =>
           \/ Len(buffer) < max_size
           \/ max_size <= 0 /\ buffer = << >>

\* Two batches were handed over, one delivered and one dropped, a third event
\* waits in the buffer and the lock is free.
C29_Witness ==
    /\ max_size = 2
    /\ Len(sent) = 2
    /\ sent[1].outcome = "delivered"
    /\ sent[2].outcome = "dropped"
    /\ Len(buffer) = 1
    /\ lockHolder = None

\* ---------------------------------------------------------------------------
\* SpecLimiter: TokenBucketRateLimiter.allow (infrastructure/cache/
\* rate_limiter.py) called by concurrent tasks for one key.  The pipeline of
\* lines 17-22 is one round trip that Redis runs as one transaction; the hset
\* of line 31 is a second round trip.  The server is shared, so another call's
\* round trips can fall between the two.
\* ---------------------------------------------------------------------------
MaxCapacity == 2
MaxClock == 1
MaxCalls == 3

Capacities == 0..MaxCapacity
RefillRates == {0, 1}

Min(a, b) == IF a <= b THEN a ELSE b
Max(a, b) == IF a >= b THEN a ELSE b

\* Lines 15-17: the call reads the clock and builds the pipeline.
AllowBegin(p) ==
    /\ allowCalls[p].pc = "idle"
    /\ started < MaxCalls
    /\ started' = started + 1
    /\ allowCalls' = [allowCalls EXCEPT ![p] =
           [pc |-> "executing", now |-> wallClock, tokens |-> 0,
            allowed |-> FALSE]]
    /\ UNCHANGED <<capacity, refill_rate_per_sec, wallClock, bucket, granted,
                   outsideLimiter>>

\* hsetnx writes a field only when the hash has none.
HSetNx(b, tokens, ts) ==
    IF b.exists THEN b ELSE [exists |-> TRUE, tokens |-> tokens, ts |-> ts]

\* Lines 19-30: pipe.execute() initialises the bucket when it is missing and
\* returns the hash; the call refills, decides and takes a token in its locals.
PipeExecute(p) ==
    LET c == allowCalls[p]
        state == HSetNx(bucket, capacity, c.now)
        delta == Max(0, c.now - state.ts)
        refilled == Min(capacity, state.tokens + delta * refill_rate_per_sec)
        allowed == refilled >= 1
        tokens == IF allowed THEN refilled - 1 ELSE refilled
    IN  /\ c.pc = "executing"
        /\ bucket' = state
        /\ allowCalls' = [allowCalls EXCEPT ![p] =
               [c EXCEPT !.pc = "writing", !.tokens = tokens,
                         !.allowed = allowed]]
        /\ UNCHANGED <<capacity, refill_rate_per_sec, wallClock, granted,
                       started, outsideLimiter>>

\* Lines 31-32: hset stores the locals and the call returns.
HSet(p) ==
    LET c == allowCalls[p]
    IN  /\ c.pc = "writing"
        /\ bucket' = [exists |-> TRUE, tokens |-> c.tokens, ts |-> c.now]
        /\ granted' = granted + (IF c.allowed THEN 1 ELSE 0)
        /\ allowCalls' = [allowCalls EXCEPT ![p] = [c EXCEPT !.pc = "idle"]]
        /\ UNCHANGED <<capacity, refill_rate_per_sec, wallClock, started,
                       outsideLimiter>>

\* time.time() moves on.
AdvanceClock ==
    /\ wallClock < MaxClock
    /\ wallClock' = wallClock + 1
    /\ UNCHANGED <<capacity, refill_rate_per_sec, bucket, allowCalls, granted,
                   started, outsideLimiter>>

InitLimiter ==
    /\ InitApplyVars /\ InitRegistryVars /\ InitCallerVars /\ InitEngineVars
    /\ InitDriftVars /\ InitSeverityVars /\ InitModelVars /\ InitPiiVars
    /\ InitFinVars /\ InitBufferVars
    /\ capacity \in Capacities
    /\ refill_rate_per_sec \in RefillRates
    /\ wallClock = 0
    /\ bucket = NoBucket
    /\ allowCalls = [p \in LimiterTasks |-> NoAllow]
    /\ granted = 0
    /\ started = 0

NextLimiter ==
    \/ \E p \in LimiterTasks : AllowBegin(p) \/ PipeExecute(p) \/ HSet(p)
    \/ AdvanceClock

SpecLimiter == InitLimiter /\ [][NextLimiter]_vars

\* No refill accrues: the rate is zero, or the clock has not moved.
NoRefill == refill_rate_per_sec = 0 \/ wallClock = 0

\* C30: for one key with capacity C, under any interleaving of concurrent
\* allow calls during which no refill accrues, at most C calls return true,
\* and the stored token count stays within [0, C] after every call.
C30_AtMostCapacityGranted ==
    /\ NoRefill => granted <= capacity
    /\ bucket.exists => bucket.tokens \in 0..capacity
====
